---- MODULE Spec2Model ----
(***************************************************************************)
(* A Game Of Lore (src/GOL.py): the state record StoryState, the narrative *)
(* engine StoryEngine (generate_scene, apply_choice, check_ending), the    *)
(* save slots of SaveManager and the session loop game_loop.               *)
(*                                                                         *)
(* Strings of the program are kept as strings; narration texts are kept as *)
(* the pair <<which text, interpolated demon-lord name>>.  The seeded      *)
(* generator random.Random is a library: a draw is an arbitrary value of   *)
(* the requested range, and the generator's state is the pair (seed,       *)
(* number of draws since seeding).  The dash of the location strings is    *)
(* written "--".                                                           *)
(***************************************************************************)
EXTENDS Integers, Sequences, FiniteSets, TLC

VARIABLES
    state,      \* the StoryState record of the session (game_loop's `state`)
    rng,        \* the session's random.Random: [seed, pos, asked]
    text,       \* narration of the scene last rendered, None before any
    choices,    \* the (choice text, tag) pairs last rendered
    follow,     \* narration returned by the last apply_choice, None before any
    ending,     \* result of the last check_ending, None when it found none
    pc,         \* position of the program
    slots,      \* the save files: slot number -> saved document
    accessed,   \* <<n>>: slot_n.json is the file tested or opened last; <<>>: none yet
    twin,       \* a second, independent session run (state, rng, text, ...)
    calls,      \* number of engine operations a test driver has performed, or
                \* of game_loop runs main has started
    origin,     \* the record the behaviour began from
    entry,      \* the branch of main that called game_loop: "new" or "load"
    plan,       \* the numbers the player of a whole playthrough picks from and
                \* the candidate every scene draw takes
    mem         \* the objects of a round trip through to_dict and from_dict: the
                \* lists and dicts by address, and the records that refer to them

vars == <<state, rng, text, choices, follow, ending, pc, slots, accessed, twin, calls, origin,
          entry, plan, mem>>

None == "None"

\* ------------------------------------------------------------------------
\* StoryState
\* ------------------------------------------------------------------------

NUM_SLOTS == 8

NoFlags == [k \in {} |-> TRUE]

\* no playthrough of a planned player is under way
NoPlan == [picks |-> {}, draws |-> "first", drifts |-> "free"]

\* no round trip is under way: nothing has been serialized
NoMem == [stage |-> "none", heap |-> <<>>]

\* StoryState(name=..., seed=...) with every other field at its default.
StoryState(name, seed) ==
    [ name             |-> name,
      chapter          |-> 0,
      location         |-> "Demon Forest",
      health           |-> 80,
      power            |-> 20,
      morality         |-> 0,
      notoriety        |-> 0,
      trust_demon_lord |-> 10,
      bond_demon_lord  |-> 0,
      inventory        |-> <<"Torn Cloak", "Rusty Sword">>,
      flags            |-> NoFlags,
      history          |-> <<>>,
      seed             |-> seed ]

DefaultState == StoryState("Nameless", 0)

\* dict helpers on the flags mapping
HasKey(d, k) == k \in DOMAIN d

Put(d, k, v) == [x \in (DOMAIN d) \cup {k} |-> IF x = k THEN v ELSE d[x]]

SetDefaultOverwrites(d, k, v) == Put(d, k, v)

\* d.setdefault(k, v)
SetDefault(d, k, v) == IF HasKey(d, k) THEN d ELSE Put(d, k, v)

\* st.flags.get(k, False) used as a condition
FlagTrue(st, k) == HasKey(st.flags, k) /\ st.flags[k] = TRUE

\* st.flags.get("demon_lord_name", "the Demon Lord")
DlName(st) ==
    IF HasKey(st.flags, "demon_lord_name") THEN st.flags["demon_lord_name"]
    ELSE "the Demon Lord"

\* ------------------------------------------------------------------------
\* StoryEngine helpers
\* ------------------------------------------------------------------------

Max2(a, b) == IF a >= b THEN a ELSE b

Min2(a, b) == IF a <= b THEN a ELSE b

ClampNoUpper(v, lo, hi) == Max2(lo, v)

clamp(v, lo, hi) == Max2(lo, Min2(hi, v))

ModRejectsOutOfRange(st, attr, delta, lo, hi) ==
    IF st[attr] + delta < lo \/ st[attr] + delta > hi THEN st
    ELSE [st EXCEPT ![attr] = @ + delta]

\* the closure mod(attr, delta, lo, hi) of apply_choice
mod(st, attr, delta, lo, hi) == [st EXCEPT ![attr] = clamp(@ + delta, lo, hi)]

\* _p(p_true): rng.random() < p_true, with the draw and p_true in hundredths
p(r, p_true) == r < p_true

DriftPercent == 15

DriftDeltas == <<-2, -1, 1, 2>>

\* ------------------------------------------------------------------------
\* Scenes
\* ------------------------------------------------------------------------

demon_names == <<"Nyx", "Velaria", "Lilithe", "Morrigan", "Eresh", "Seraphine", "Astariel", "Noctra">>

IntroLocation == "Demon Forest -- Thornsfall Edge"

IntroHistory == "Banished to the Demon Forest after betrayal by the kingdom and fellow heroes."

IntroChoices(dl) ==
    << <<"-", "intro_plead">>, <<"-", "intro_vengeance">>,
       <<"-", "intro_pact">>, <<"-", "intro_fight">> >>

\* Whether intro_scene takes a draw: flags.get("demon_lord_name") is falsy,
\* which it is for a missing key and for the empty string.
IntroDraws(st) ==
    ~HasKey(st.flags, "demon_lord_name") \/ st.flags["demon_lord_name"] = ""

IntroSceneKeepsChapter(st, v) ==
    LET dl == IF IntroDraws(st) THEN demon_names[v + 1] ELSE st.flags["demon_lord_name"]
    IN  [ st      |-> [st EXCEPT !.location = IntroLocation,
                                 !.flags = Put(@, "demon_lord_name", dl),
                                 !.history = Append(@, IntroHistory)],
          text    |-> <<"intro", dl>>,
          choices |-> IntroChoices(dl) ]

IntroSceneRenames(st, v) ==
    LET f1 == SetDefault(st.flags, "betrayed", TRUE)
        f2 == SetDefault(f1, "met_demon_lord", TRUE)
        f3 == SetDefault(f2, "allied", FALSE)
        f4 == SetDefault(f3, "vow_revenge", FALSE)
        f5 == SetDefault(f4, "seeking_truth", TRUE)
        dl == demon_names[v + 1]
    IN  [ st      |-> [st EXCEPT !.chapter = 1,
                                 !.location = IntroLocation,
                                 !.flags = Put(f5, "demon_lord_name", dl),
                                 !.history = Append(@, IntroHistory)],
          text    |-> <<"intro", dl>>,
          choices |-> IntroChoices(dl) ]

\* intro_scene(st); v is the index rng.choice takes when it is called.
intro_scene(st, v) ==
    LET f1 == SetDefault(st.flags, "betrayed", TRUE)
        f2 == SetDefault(f1, "met_demon_lord", TRUE)
        f3 == SetDefault(f2, "allied", FALSE)
        f4 == SetDefault(f3, "vow_revenge", FALSE)
        f5 == SetDefault(f4, "seeking_truth", TRUE)
        dl == IF IntroDraws(st) THEN demon_names[v + 1] ELSE st.flags["demon_lord_name"]
    IN  [ st      |-> [st EXCEPT !.chapter = 1,
                                 !.location = IntroLocation,
                                 !.flags = Put(f5, "demon_lord_name", dl),
                                 !.history = Append(@, IntroHistory)],
          text    |-> <<"intro", dl>>,
          choices |-> IntroChoices(dl) ]

\* the list `archetypes` built by generate_scene, in the order of the code
RelationshipArchetypesOathAgain(st) ==
    IF FlagTrue(st, "met_demon_lord")
    THEN (IF st.trust_demon_lord >= 60 THEN <<"oath_bond">> ELSE <<>>)
         \o (IF st.trust_demon_lord >= 30 THEN <<"council", "training">>
             ELSE <<"tense_camp">>)
    ELSE <<>>

RelationshipArchetypes(st) ==
    IF FlagTrue(st, "met_demon_lord")
    THEN (IF st.trust_demon_lord >= 60 /\ ~FlagTrue(st, "oath_bound")
          THEN <<"oath_bond">> ELSE <<>>)
         \o (IF st.trust_demon_lord >= 30 THEN <<"council", "training">>
             ELSE <<"tense_camp">>)
    ELSE <<>>

ArchetypesNoTail(st) ==
    RelationshipArchetypes(st)
    \o (IF FlagTrue(st, "vow_revenge") THEN <<"spy_report", "ambush_king_scouts">> ELSE <<>>)
    \o (IF st.morality >= 40 THEN <<"rescue_travelers">> ELSE <<>>)
    \o (IF st.morality <= -40 THEN <<"grim_bargain">> ELSE <<>>)

ArchetypesCampAlways(st) ==
    (IF FlagTrue(st, "met_demon_lord")
     THEN (IF st.trust_demon_lord >= 60 /\ ~FlagTrue(st, "oath_bound")
           THEN <<"oath_bond">> ELSE <<>>)
          \o (IF st.trust_demon_lord >= 30 THEN <<"council", "training">> ELSE <<>>)
          \o <<"tense_camp">>
     ELSE <<>>)
    \o (IF FlagTrue(st, "vow_revenge") THEN <<"spy_report", "ambush_king_scouts">> ELSE <<>>)
    \o (IF st.morality >= 40 THEN <<"rescue_travelers">> ELSE <<>>)
    \o (IF st.morality <= -40 THEN <<"grim_bargain">> ELSE <<>>)
    \o <<"mystic_ruins", "wild_hunt", "whispering_trees">>

Archetypes(st) ==
    RelationshipArchetypes(st)
    \o (IF FlagTrue(st, "vow_revenge") THEN <<"spy_report", "ambush_king_scouts">> ELSE <<>>)
    \o (IF st.morality >= 40 THEN <<"rescue_travelers">> ELSE <<>>)
    \o (IF st.morality <= -40 THEN <<"grim_bargain">> ELSE <<>>)
    \o <<"mystic_ruins", "wild_hunt", "whispering_trees">>

\* the dispatch chain of generate_scene: archetype -> scene procedure
Dispatch(chosen) ==
    CASE chosen = "oath_bond"          -> "scene_oath_bond"
      [] chosen = "council"            -> "scene_council"
      [] chosen = "training"           -> "scene_training"
      [] chosen = "tense_camp"         -> "scene_tense_camp"
      [] chosen = "spy_report"         -> "scene_spy_report"
      [] chosen = "ambush_king_scouts" -> "scene_ambush"
      [] chosen = "rescue_travelers"   -> "scene_rescue"
      [] chosen = "grim_bargain"       -> "scene_grim_bargain"
      [] chosen = "mystic_ruins"       -> "scene_ruins"
      [] chosen = "wild_hunt"          -> "scene_wild_hunt"
      [] chosen = "whispering_trees"   -> "scene_whispers"
      [] OTHER                         -> "scene_tense_camp"

SceneProcs ==
    { "scene_oath_bond", "scene_council", "scene_training", "scene_tense_camp",
      "scene_spy_report", "scene_ambush", "scene_rescue", "scene_grim_bargain",
      "scene_ruins", "scene_wild_hunt", "scene_whispers" }

SceneLocation(proc) ==
    CASE proc = "scene_tense_camp"   -> "Forest Camp -- Ember Clearing"
      [] proc = "scene_training"     -> "Obsidian Glade -- Training Stones"
      [] proc = "scene_council"      -> "Eclipse Hall -- Council of Cinders"
      [] proc = "scene_oath_bond"    -> "Moonwell -- Mirror of Vows"
      [] proc = "scene_spy_report"   -> "Shadespine -- Scout's Path"
      [] proc = "scene_ambush"       -> "Ravine Verge -- Broken Bridge"
      [] proc = "scene_rescue"       -> "Cairn Road -- Bleak Mile"
      [] proc = "scene_grim_bargain" -> "Thorn Altar -- Price of Power"
      [] proc = "scene_ruins"        -> "Ancient Ruins -- Vault of Mists"
      [] proc = "scene_wild_hunt"    -> "Night Plains -- The Wild Hunt"
      [] proc = "scene_whispers"     -> "Whispering Trees -- Root of Echoes"

\* the scene text: which template, and the name it interpolates ("-" if none)
SceneText(proc, dl) ==
    IF proc \in {"scene_tense_camp", "scene_training", "scene_council",
                 "scene_oath_bond", "scene_grim_bargain"}
    THEN <<proc, dl>> ELSE <<proc, "-">>

\* the (choice text, tag) pairs; a choice text is the name it interpolates
SceneChoices(proc, dl) ==
    CASE proc = "scene_tense_camp" ->
            << <<"-", "camp_confide">>, <<"-", "camp_silence">>,
               <<"-", "camp_probe">>, <<"-", "camp_scout">> >>
      [] proc = "scene_training" ->
            << <<"-", "train_defense">>, <<"-", "train_wrath">>, <<dl, "train_sync">> >>
      [] proc = "scene_council" ->
            << <<"-", "council_diplomacy">>, <<"-", "council_raids">>,
               <<"-", "council_parley">> >>
      [] proc = "scene_oath_bond" ->
            << <<"-", "oath_sworn">>, <<"-", "oath_hesitate">>, <<"-", "oath_refuse">> >>
      [] proc = "scene_spy_report" ->
            << <<"-", "spy_intercept">>, <<"-", "spy_reverse">>, <<"-", "spy_ignore">> >>
      [] proc = "scene_ambush" ->
            << <<"-", "ambush_shadow">>, <<"-", "ambush_capture">>,
               <<"-", "ambush_letgo">> >>
      [] proc = "scene_rescue" ->
            << <<"-", "rescue_shield">>, <<"-", "rescue_ruse">>, <<"-", "rescue_walk">> >>
      [] proc = "scene_grim_bargain" ->
            << <<"-", "bargain_memory">>, <<"-", "bargain_reject">>,
               <<"-", "bargain_token">> >>
      [] proc = "scene_ruins" ->
            << <<"-", "ruins_study">>, <<"-", "ruins_force">>, <<"-", "ruins_mark">> >>
      [] proc = "scene_wild_hunt" ->
            << <<"-", "hunt_race">>, <<"-", "hunt_duel">>, <<"-", "hunt_hide">> >>
      [] proc = "scene_whispers" ->
            << <<"-", "whisper_follow">>, <<"-", "whisper_ward">>,
               <<dl, "whisper_together">> >>

SceneLogsVisit(proc, st) ==
    [ st      |-> [st EXCEPT !.location = SceneLocation(proc),
                             !.history = Append(@, SceneLocation(proc))],
      text    |-> SceneText(proc, DlName(st)),
      choices |-> SceneChoices(proc, DlName(st)) ]

\* one scene_* procedure: sets location, returns (text, choices)
scene(proc, st) ==
    [ st      |-> [st EXCEPT !.location = SceneLocation(proc)],
      text    |-> SceneText(proc, DlName(st)),
      choices |-> SceneChoices(proc, DlName(st)) ]

\* Whether generate_scene takes a draw from the generator on st.
SceneDraws(st) == IF st.chapter = 0 THEN IntroDraws(st) ELSE TRUE

\* The range of that draw: rng.choice(seq) takes an index below len(seq).
SceneRange(st) == IF st.chapter = 0 THEN Len(demon_names) ELSE Len(Archetypes(st))

\* what generate_scene asks of the generator on st: the length of the list
\* rng.choice draws from, 0 when it makes no draw
SceneRequest(st) ==
    IF ~SceneDraws(st) THEN 0
    ELSE IF st.chapter = 0 THEN Len(demon_names)
    ELSE SceneRange(st)

\* the requests generate_scene makes of the generator on st, in order
SceneAsks(st) == IF SceneDraws(st) THEN <<SceneRequest(st)>> ELSE <<>>

\* generate_scene(st); v is the index drawn by rng.choice
generate_scene(st, v) ==
    IF st.chapter = 0 THEN intro_scene(st, v)
    ELSE scene(Dispatch(Archetypes(st)[v + 1]), st)

\* ------------------------------------------------------------------------
\* apply_choice
\* ------------------------------------------------------------------------

\* a run of mod(...) calls, applied left to right
RECURSIVE ModAll(_, _)
ModAll(st, mods) ==
    IF mods = <<>> THEN st
    ELSE ModAll(mod(st, mods[1][1], mods[1][2], mods[1][3], mods[1][4]), Tail(mods))

\* st.flags[k] = v
SetFlagAlone(st, k, v) == [st EXCEPT !.flags = [x \in {k} |-> v]]

SetFlag(st, k, v) == [st EXCEPT !.flags = Put(@, k, v)]

\* st.history.append(line)
AddHistory(st, line) == [st EXCEPT !.history = Append(@, line)]

\* list(dict.fromkeys(seq)): the first occurrence of each entry, in order
RECURSIVE FromKeys(_, _)
FromKeys(seq, seen) ==
    IF seq = <<>> THEN seen
    ELSE FromKeys(Tail(seq),
                  IF \E i \in 1..Len(seen) : seen[i] = seq[1] THEN seen
                  ELSE Append(seen, seq[1]))

AddItemAppendOnly(st, item) == [st EXCEPT !.inventory = Append(@, item)]

\* st.inventory.append(item); st.inventory = list(dict.fromkeys(st.inventory))
AddItem(st, item) == [st EXCEPT !.inventory = FromKeys(Append(@, item), <<>>)]

\* the tags whose narration interpolates the demon-lord name
NamedFollow ==
    { "intro_plead", "intro_vengeance", "intro_pact", "intro_fight",
      "camp_confide", "camp_probe", "train_sync", "whisper_together" }

Fallback == <<"fallback", "-">>

Narration(tag, dl) == IF tag \in NamedFollow THEN <<tag, dl>> ELSE <<tag, "-">>

\* the tags that have a branch in apply_choice
EffectTags ==
    { "intro_plead", "intro_vengeance", "intro_pact", "intro_fight",
      "camp_confide", "camp_silence", "camp_probe", "camp_scout",
      "train_defense", "train_wrath", "train_sync",
      "council_diplomacy", "council_raids", "council_parley",
      "oath_sworn", "oath_hesitate", "oath_refuse",
      "spy_intercept", "spy_reverse", "spy_ignore",
      "ambush_shadow", "ambush_capture", "ambush_letgo",
      "rescue_shield", "rescue_ruse", "rescue_walk",
      "bargain_memory", "bargain_reject", "bargain_token",
      "ruins_study", "ruins_force", "ruins_mark",
      "hunt_race", "hunt_duel", "hunt_hide",
      "whisper_follow", "whisper_ward", "whisper_together" }

\* the body of the branch of apply_choice for one tag, applied to the record
\* whose chapter has already been incremented
Effect(s, tag) ==
    CASE tag = "intro_plead" ->
            SetFlag(ModAll(s, << <<"morality", 10, -100, 100>>,
                                 <<"trust_demon_lord", 15, 0, 100>> >>),
                    "seeking_truth", TRUE)
      [] tag = "intro_vengeance" ->
            ModAll(SetFlag(ModAll(s, << <<"morality", -10, -100, 100>>,
                                        <<"power", 10, 0, 100>> >>),
                           "vow_revenge", TRUE),
                   << <<"trust_demon_lord", 5, 0, 100>> >>)
      [] tag = "intro_pact" ->
            SetFlag(ModAll(s, << <<"trust_demon_lord", 20, 0, 100>> >>), "allied", TRUE)
      [] tag = "intro_fight" ->
            ModAll(s, << <<"health", -15, 0, 100>>, <<"power", 5, 0, 100>>,
                         <<"trust_demon_lord", 10, 0, 100>> >>)
      [] tag = "camp_confide" ->
            ModAll(s, << <<"morality", 5, -100, 100>>,
                         <<"trust_demon_lord", 12, 0, 100>> >>)
      [] tag = "camp_silence" ->
            ModAll(s, << <<"power", 5, 0, 100>>, <<"trust_demon_lord", 2, 0, 100>> >>)
      [] tag = "camp_probe" ->
            ModAll(s, << <<"trust_demon_lord", -3, 0, 100>>, <<"notoriety", 5, 0, 100>> >>)
      [] tag = "camp_scout" ->
            ModAll(s, << <<"power", 3, 0, 100>>, <<"health", 3, 0, 100>> >>)
      [] tag = "train_defense" ->
            ModAll(s, << <<"power", 7, 0, 100>>, <<"morality", 5, -100, 100>>,
                         <<"trust_demon_lord", 5, 0, 100>> >>)
      [] tag = "train_wrath" ->
            ModAll(s, << <<"power", 12, 0, 100>>, <<"morality", -6, -100, 100>>,
                         <<"notoriety", 6, 0, 100>> >>)
      [] tag = "train_sync" ->
            ModAll(s, << <<"power", 6, 0, 100>>, <<"trust_demon_lord", 10, 0, 100>>,
                         <<"bond_demon_lord", 1, 0, 100>> >>)
      [] tag = "council_diplomacy" ->
            SetFlag(ModAll(s, << <<"morality", 8, -100, 100>>,
                                 <<"trust_demon_lord", 6, 0, 100>> >>),
                    "seeking_truth", TRUE)
      [] tag = "council_raids" ->
            SetFlag(ModAll(s, << <<"power", 8, 0, 100>>, <<"notoriety", 10, 0, 100>> >>),
                    "vow_revenge", TRUE)
      [] tag = "council_parley" ->
            SetFlag(ModAll(s, << <<"morality", 3, -100, 100>>,
                                 <<"notoriety", 3, 0, 100>> >>),
                    "parley_set", TRUE)
      [] tag = "oath_sworn" ->
            ModAll(SetFlag(ModAll(s, << <<"trust_demon_lord", 20, 0, 100>> >>),
                           "oath_bound", TRUE),
                   << <<"bond_demon_lord", 3, 0, 100>> >>)
      [] tag = "oath_hesitate" ->
            ModAll(s, << <<"trust_demon_lord", -5, 0, 100>> >>)
      [] tag = "oath_refuse" ->
            SetFlag(ModAll(s, << <<"trust_demon_lord", -12, 0, 100>> >>), "allied", FALSE)
      [] tag = "spy_intercept" ->
            ModAll(s, << <<"morality", 4, -100, 100>>, <<"notoriety", 5, 0, 100>> >>)
      [] tag = "spy_reverse" ->
            ModAll(s, << <<"power", 7, 0, 100>>, <<"morality", -2, -100, 100>>,
                         <<"notoriety", 9, 0, 100>> >>)
      [] tag = "spy_ignore" ->
            ModAll(s, << <<"power", 4, 0, 100>>, <<"morality", -4, -100, 100>> >>)
      [] tag = "ambush_shadow" ->
            ModAll(s, << <<"power", 8, 0, 100>>, <<"morality", -6, -100, 100>>,
                         <<"notoriety", 8, 0, 100>> >>)
      [] tag = "ambush_capture" ->
            ModAll(s, << <<"morality", 6, -100, 100>>, <<"notoriety", 4, 0, 100>> >>)
      [] tag = "ambush_letgo" ->
            ModAll(s, << <<"morality", 2, -100, 100>>, <<"notoriety", 6, 0, 100>> >>)
      [] tag = "rescue_shield" ->
            ModAll(s, << <<"morality", 10, -100, 100>>, <<"health", -8, 0, 100>>,
                         <<"trust_demon_lord", 4, 0, 100>> >>)
      [] tag = "rescue_ruse" ->
            ModAll(s, << <<"morality", 6, -100, 100>>, <<"power", 3, 0, 100>> >>)
      [] tag = "rescue_walk" ->
            ModAll(s, << <<"morality", -10, -100, 100>>, <<"power", 4, 0, 100>>,
                         <<"notoriety", 5, 0, 100>> >>)
      [] tag = "bargain_memory" ->
            AddHistory(ModAll(s, << <<"power", 15, 0, 100>>,
                                    <<"morality", -8, -100, 100>> >>),
                       "You traded a cherished memory at the Thorn Altar.")
      [] tag = "bargain_reject" ->
            ModAll(s, << <<"morality", 5, -100, 100>>,
                         <<"trust_demon_lord", 3, 0, 100>> >>)
      [] tag = "bargain_token" ->
            ModAll(s, << <<"power", 10, 0, 100>>, <<"notoriety", 7, 0, 100>> >>)
      [] tag = "ruins_study" ->
            AddHistory(ModAll(s, << <<"power", 4, 0, 100>>, <<"morality", 2, -100, 100>> >>),
                       "Discovered records of prior heroes consumed by their crowns.")
      [] tag = "ruins_force" ->
            AddItem(ModAll(s, << <<"power", 8, 0, 100>>, <<"morality", -4, -100, 100>> >>),
                    "Vault Relic")
      [] tag = "ruins_mark" ->
            ModAll(s, << <<"morality", 1, -100, 100>>, <<"trust_demon_lord", 2, 0, 100>> >>)
      [] tag = "hunt_race" ->
            ModAll(s, << <<"power", 5, 0, 100>>, <<"notoriety", 3, 0, 100>> >>)
      [] tag = "hunt_duel" ->
            ModAll(s, << <<"power", 10, 0, 100>>, <<"health", -6, 0, 100>>,
                         <<"notoriety", 6, 0, 100>> >>)
      [] tag = "hunt_hide" ->
            ModAll(s, << <<"morality", 2, -100, 100>> >>)
      [] tag = "whisper_follow" ->
            SetFlag(ModAll(s, << <<"notoriety", 4, 0, 100>> >>), "betrayer_trail", TRUE)
      [] tag = "whisper_ward" ->
            ModAll(s, << <<"power", 3, 0, 100>>, <<"morality", 1, -100, 100>> >>)
      [] tag = "whisper_together" ->
            ModAll(s, << <<"trust_demon_lord", 8, 0, 100>>,
                         <<"bond_demon_lord", 1, 0, 100>> >>)
      [] OTHER -> s

ApplyChoiceChapterOnlyIfKnown(st, tag) ==
    IF tag \in EffectTags
    THEN [st |-> Effect([st EXCEPT !.chapter = @ + 1], tag), follow |-> Narration(tag, DlName(st))]
    ELSE [st |-> st, follow |-> Fallback]

ApplyChoiceUnknownFallsThrough(st, tag) ==
    IF tag \in EffectTags
    THEN [st |-> Effect([st EXCEPT !.chapter = @ + 1], tag), follow |-> Narration(tag, DlName(st))]
    ELSE [st |-> Effect([st EXCEPT !.chapter = @ + 1], "whisper_together"), follow |-> Fallback]

ApplyChoiceRefusalCoolsBond(st, tag) ==
    LET s == [st EXCEPT !.chapter = @ + 1]
    IN  IF tag = "oath_refuse"
        THEN [st |-> [Effect(s, tag) EXCEPT !.bond_demon_lord = Max2(0, @ - 3)],
              follow |-> Narration(tag, DlName(st))]
        ELSE IF tag \in EffectTags
        THEN [st |-> Effect(s, tag), follow |-> Narration(tag, DlName(st))]
        ELSE [st |-> s, follow |-> Fallback]

ApplyChoiceWithoutToken(st, tag) ==
    LET s == [st EXCEPT !.chapter = @ + 1]
    IN  IF tag \in EffectTags \ {"bargain_token"}
        THEN [st |-> Effect(s, tag), follow |-> Narration(tag, DlName(st))]
        ELSE [st |-> s, follow |-> Fallback]

\* apply_choice(st, tag): the mutated record and the narration returned
apply_choice(st, tag) ==
    LET dl == DlName(st)
        s  == [st EXCEPT !.chapter = @ + 1]
    IN  IF tag \in EffectTags
        THEN [st |-> Effect(s, tag), follow |-> Narration(tag, dl)]
        ELSE [st |-> s, follow |-> Fallback]

\* ------------------------------------------------------------------------
\* check_ending
\* ------------------------------------------------------------------------

CheckEndingExileTrustFlipped(st) ==
    IF st.health <= 0 THEN "death"
    ELSE IF st.trust_demon_lord >= 80 /\ st.power >= 70 /\ FlagTrue(st, "oath_bound")
         THEN "alliance"
    ELSE IF st.notoriety >= 80 /\ st.power >= 80 /\ st.morality <= -30 THEN "sovereign"
    ELSE IF st.morality >= 80 /\ st.power >= 50 THEN "guardian"
    ELSE IF st.chapter >= 30 /\ st.trust_demon_lord >= 40 /\ st.notoriety < 40 THEN "exile"
    ELSE None

CheckEndingExileFirst(st) ==
    IF st.chapter >= 30 /\ st.trust_demon_lord < 40 /\ st.notoriety < 40 THEN "exile"
    ELSE IF st.health <= 0 THEN "death"
    ELSE IF st.trust_demon_lord >= 80 /\ st.power >= 70 /\ FlagTrue(st, "oath_bound")
         THEN "alliance"
    ELSE IF st.notoriety >= 80 /\ st.power >= 80 /\ st.morality <= -30 THEN "sovereign"
    ELSE IF st.morality >= 80 /\ st.power >= 50 THEN "guardian"
    ELSE None

\* check_ending(st): which ending text is returned, None when none is
check_ending(st) ==
    IF st.health <= 0 THEN "death"
    ELSE IF st.trust_demon_lord >= 80 /\ st.power >= 70 /\ FlagTrue(st, "oath_bound")
         THEN "alliance"
    ELSE IF st.notoriety >= 80 /\ st.power >= 80 /\ st.morality <= -30 THEN "sovereign"
    ELSE IF st.morality >= 80 /\ st.power >= 50 THEN "guardian"
    ELSE IF st.chapter >= 30 /\ st.trust_demon_lord < 40 /\ st.notoriety < 40 THEN "exile"
    ELSE None

\* The ending text: the alliance ending interpolates the demon-lord name.
EndingText(st) ==
    LET e == check_ending(st)
    IN  IF e = "alliance" THEN <<e, DlName(st)>> ELSE <<e, "-">>

\* the incidental drift of game_loop: r is rng.random() in hundredths, v the
\* index rng.choice takes in [-2, -1, +1, +2] when the test fires
drift(st, r, v) ==
    IF p(r, DriftPercent)
    THEN [st EXCEPT !.health = clamp(@ + DriftDeltas[v + 1], 0, 100)]
    ELSE st

\* ------------------------------------------------------------------------
\* The seeded generator, save files
\* ------------------------------------------------------------------------

NewRngUnseeded(seed) == [seed |-> -1, pos |-> 0, asked |-> <<>>]

\* random.Random(seed) and rng.seed(seed): the stream restarts at its first
\* draw. A generator is its seed, the number of draws made of it and what
\* each draw asked for: rng.choice takes as many words of the stream as its
\* rejection loop needs for the length asked, rng.random takes two.
NewRng(seed) == [seed |-> seed, pos |-> 0, asked |-> <<>>]

\* what rng.random() asks of the generator; rng.choice(seq) asks len(seq)
Uniform == 0

\* the draws asks[1], asks[2], ... taken from generator g
Advance(g, asks) == [g EXCEPT !.pos = @ + Len(asks), !.asked = @ \o asks]

\* the requests the incidental drift makes when rng.random() * 100 is r
DriftAsks(r) ==
    IF p(r, DriftPercent) THEN <<Uniform, Len(DriftDeltas)>> ELSE <<Uniform>>

StateFields == DOMAIN DefaultState

\* StoryState.to_dict: asdict, the mapping field name -> value
to_dict(st) == [k \in StateFields |-> st[k]]

\* StoryState.from_dict: missing keys take the defaults
from_dict(d) ==
    [k \in StateFields |-> IF k \in DOMAIN d THEN d[k] ELSE DefaultState[k]]

\* the JSON document SaveManager.save writes (the timestamp is not modelled)
SaveData(st) == [version |-> 1, state |-> to_dict(st)]

NoFiles == [n \in {} |-> SaveData(DefaultState)]

\* data.get("state", {}) on the document json.load returns
StateOf(doc) == IF "state" \in DOMAIN doc THEN doc.state ELSE [k \in {} |-> 0]

\* whether StoryState(**d) accepts the keys of d; it raises TypeError on a
\* key that is not a field
Constructs(d) == DOMAIN d \subseteq StateFields

\* SaveManager.load(slot) on the files `files`; ok is FALSE when it raises
\* (no file at the path, or the document does not construct) and then no
\* record is returned
load(files, slot) ==
    IF slot \notin DOMAIN files THEN [ok |-> FALSE, state |-> DefaultState]
    ELSE IF ~Constructs(StateOf(files[slot])) THEN [ok |-> FALSE, state |-> DefaultState]
    ELSE [ok |-> TRUE, state |-> from_dict(StateOf(files[slot]))]

\* A seed that is not a number: a JSON list, which from_dict stores as it
\* finds it. It is written -2 in the documents and records of this model.
ListSeed == -2

\* whether random.Random(seed) and rng.seed(seed) accept the seed; they
\* raise TypeError on a list
Seedable(seed) == seed # ListSeed

\* new_game(): the record a new game starts from
new_game(name, seed) ==
    [StoryState(name, seed) EXCEPT
        !.flags = [k \in {"betrayed", "met_demon_lord", "allied", "seeking_truth"} |->
                     k # "allied"]]

\* ------------------------------------------------------------------------
\* Bounds of the model
\* ------------------------------------------------------------------------

\* no scene is rendered for a record whose chapter has reached this
MaxChapter == 3

\* (name, seed) pairs new games start from
NewGames == { <<"Ann", 42>> }

\* what parse_command returns as slot: <<n>> for a number, <<>> for None
SlotInputs == { <<>>, <<0>>, <<1>>, <<NUM_SLOTS + 1>> }

\* the numbers typed as a choice
ChoiceInputs == 0..5

\* the values rng.random() * 100 is drawn from: just below and at the threshold
RandomValues == {14, 15}

\* the indices rng.choice(demon_names) is drawn from: the first and the last
NameDraws == {0, Len(demon_names) - 1}

\* the indices rng.choice([-2, -1, +1, +2]) is drawn from in a session
DriftDraws == {0, Len(DriftDeltas) - 1}

\* the indices generate_scene's draw is taken from, on record st
SceneDrawsOf(st) ==
    IF ~SceneDraws(st) THEN {0}
    ELSE IF st.chapter = 0 THEN NameDraws
    ELSE 0..(SceneRange(st) - 1)

NoText == <<None, "-">>

NoTwin == [state |-> DefaultState, rng |-> NewRng(0), text |-> NoText,
          choices |-> <<>>, follow |-> NoText, ending |-> None, pc |-> "idle"]

\* ------------------------------------------------------------------------
\* The program: game_loop, entered by main with the record of new_game()
\* ------------------------------------------------------------------------

Init ==
    /\ \E g \in NewGames :
          /\ state = new_game(g[1], g[2])
          /\ rng = NewRng(state.seed)
          /\ origin = state
    /\ text = NoText
    /\ choices = <<>>
    /\ follow = NoText
    /\ ending = None
    /\ pc = "loop"
    /\ slots = NoFiles
    /\ accessed = <<>>
    /\ twin = NoTwin
    /\ calls = 0
    /\ entry = "new"
    /\ plan = NoPlan
    /\ mem = NoMem

Idle == UNCHANGED <<twin, calls, origin, entry, plan, mem>>

NoAccess == UNCHANGED <<slots, accessed>>

\* one run of game_loop: its record, its generator and what it last showed
Run ==
    [state |-> state, rng |-> rng, text |-> text, choices |-> choices,
     follow |-> follow, ending |-> ending, pc |-> pc]

SetRun(r) ==
    /\ state' = r.state
    /\ rng' = r.rng
    /\ text' = r.text
    /\ choices' = r.choices
    /\ follow' = r.follow
    /\ ending' = r.ending
    /\ pc' = r.pc

TurnRenderFirst(run, v) ==
    LET r == generate_scene(run.state, v)
    IN  [run EXCEPT !.ending = None,
                    !.state = r.st,
                    !.text = r.text,
                    !.choices = r.choices,
                    !.rng = Advance(@, SceneAsks(run.state)),
                    !.pc = "prompt"]

\* game_loop, from the top of the outer loop to the prompt: check_ending,
\* then generate_scene when there is no ending; v is the index the draw takes
turn(run, v) ==
    IF check_ending(run.state) # None
    THEN [run EXCEPT !.ending = check_ending(run.state), !.pc = "returned"]
    ELSE LET r == generate_scene(run.state, v)
         IN  [run EXCEPT !.ending = None,
                         !.state = r.st,
                         !.text = r.text,
                         !.choices = r.choices,
                         !.rng = Advance(@, SceneAsks(run.state)),
                         !.pc = "prompt"]

SelectChoiceDraws(run, idx, r, v) ==
    IF 1 <= idx /\ idx <= Len(run.choices)
    THEN LET a == apply_choice(run.state, run.choices[idx][2])
         IN  [run EXCEPT !.state = drift(a.st, r, v),
                         !.follow = a.follow,
                         !.rng = Advance(@, <<Uniform>> \o DriftAsks(r)),
                         !.pc = "loop"]
    ELSE run

SelectFirstWhenUnlisted(run, idx, r, v) ==
    LET i == IF 1 <= idx /\ idx <= Len(run.choices) THEN idx ELSE 1
        a == apply_choice(run.state, run.choices[i][2])
    IN  [run EXCEPT !.state = drift(a.st, r, v),
                    !.follow = a.follow,
                    !.rng = Advance(@, DriftAsks(r)),
                    !.pc = "loop"]

\* game_loop on a number typed at the prompt: apply_choice, then the
\* incidental drift; r is rng.random() * 100 and v the index of the delta
select(run, idx, r, v) ==
    IF 1 <= idx /\ idx <= Len(run.choices)
    THEN LET a == apply_choice(run.state, run.choices[idx][2])
         IN  [run EXCEPT !.state = drift(a.st, r, v),
                         !.follow = a.follow,
                         !.rng = Advance(@, DriftAsks(r)),
                         !.pc = "loop"]
    ELSE run

BeginTurn ==
    /\ pc = "loop"
    /\ check_ending(state) = None => state.chapter < MaxChapter
    /\ \E v \in SceneDrawsOf(state) : SetRun(turn(Run, v))
    /\ NoAccess /\ Idle

\* the commands help, stats, slots: they print and read the next input
Help ==
    /\ pc = "prompt"
    /\ UNCHANGED <<state, rng, text, choices, follow, ending, pc>> /\ NoAccess /\ Idle

Stats ==
    /\ pc = "prompt"
    /\ UNCHANGED <<state, rng, text, choices, follow, ending, pc>> /\ NoAccess /\ Idle

\* slots: list_saves tests the paths of the slots 1..NUM_SLOTS in turn
ListSlots ==
    /\ pc = "prompt"
    /\ accessed' = <<NUM_SLOTS>>
    /\ UNCHANGED <<state, rng, text, choices, follow, ending, pc, slots>> /\ Idle

\* the command quit (and end of input): game_loop returns
Quit ==
    /\ pc = "prompt"
    /\ pc' = "returned"
    /\ UNCHANGED <<state, rng, text, choices, follow, ending>> /\ NoAccess /\ Idle

\* the command save with parse_command's slot `in`: SaveManager.save(slot,
\* state) raises before it builds the path when the slot is out of range
Save(in) ==
    /\ pc = "prompt"
    /\ IF in = <<>> THEN NoAccess
       ELSE IF in[1] < 1 \/ in[1] > NUM_SLOTS THEN NoAccess
       ELSE /\ slots' = Put(slots, in[1], SaveData(state))
            /\ accessed' = in
    /\ UNCHANGED <<state, rng, text, choices, follow, ending, pc>> /\ Idle

SaveCmd == \E in \in SlotInputs : Save(in)

\* the command load with parse_command's slot `in`: SaveManager.load(slot)
\* tests the path of whatever slot it is given. state is assigned when it
\* returned, and rng.seed(state.seed) comes after the assignment: when the
\* seed is one it rejects, the record is the loaded one and the generator is
\* as it was. In every case the inner loop reads the next input.
Load(in) ==
    /\ pc = "prompt"
    /\ IF in = <<>> THEN UNCHANGED <<state, rng, accessed>>
       ELSE /\ accessed' = in
            /\ IF load(slots, in[1]).ok
               THEN /\ state' = load(slots, in[1]).state
                    /\ rng' = IF Seedable(load(slots, in[1]).state.seed)
                              THEN NewRng(load(slots, in[1]).state.seed)
                              ELSE rng
               ELSE UNCHANGED <<state, rng>>
    /\ UNCHANGED <<text, choices, follow, ending, pc, slots>> /\ Idle

LoadCmd == \E in \in SlotInputs : Load(in)

\* a numbered choice, listed or not
Choose ==
    /\ pc = "prompt"
    /\ \E idx \in ChoiceInputs, r \in RandomValues, v \in DriftDraws :
          /\ ~p(r, DriftPercent) => v = 0
          /\ SetRun(select(Run, idx, r, v))
    /\ NoAccess /\ Idle

\* any other input
OtherInput ==
    /\ pc = "prompt"
    /\ UNCHANGED <<state, rng, text, choices, follow, ending, pc>> /\ NoAccess /\ Idle

\* digits that str.isdigit accepts and int() does not (a superscript two),
\* typed as the choice or as the slot of save or load: int() raises
\* ValueError, which game_loop does not catch
BadDigits ==
    /\ pc = "prompt"
    /\ pc' = "raised"
    /\ UNCHANGED <<state, rng, text, choices, follow, ending>> /\ NoAccess /\ Idle

Next ==
    \/ BeginTurn
    \/ Help
    \/ Stats
    \/ ListSlots
    \/ Quit
    \/ SaveCmd
    \/ LoadCmd
    \/ Choose
    \/ OtherInput
    \/ BadDigits

Spec == Init /\ [][Next]_vars

\* ------------------------------------------------------------------------
\* A session played to its end: the player takes the dangerous choice and
\* saves to and loads from one slot
\* ------------------------------------------------------------------------

\* the choice number this player picks: the second (the duel, in a hunt)
PlayPicks == {2}

\* the slot this player saves to and loads from
PlaySlot == <<1>>

\* the index generate_scene's draw takes in this specification: the first
\* name, and the hunt, which is the last but one of the candidates
PlayDrawsOf(st) ==
    IF ~SceneDraws(st) \/ st.chapter = 0 THEN {0} ELSE {SceneRange(st) - 2}

\* the index the drift's draw takes in this specification: the delta -2
PlayDrifts == {0}

\* a session whose record holds a list seed cannot reseed its generator by
\* loading that record again: it is followed for this many draws
MaxDraws == 4

PlayTurn ==
    /\ pc = "loop"
    /\ Seedable(state.seed) \/ rng.pos < MaxDraws
    /\ \E v \in PlayDrawsOf(state) : SetRun(turn(Run, v))
    /\ NoAccess /\ Idle

\* the values rng.random() * 100 takes in this specification: the drift
\* may fire after the choices of the first chapters and does not fire later
PlayRandomsOf(st) ==
    IF st.chapter < MaxChapter THEN RandomValues ELSE { r \in RandomValues : ~p(r, DriftPercent) }

PlayChoose ==
    /\ pc = "prompt"
    /\ \E idx \in PlayPicks, r \in PlayRandomsOf(state), v \in PlayDrifts :
          SetRun(select(Run, idx, r, v))
    /\ NoAccess /\ Idle

PlaySave == Save(PlaySlot)

PlayLoad == Load(PlaySlot)

NextPlay ==
    \/ PlayTurn
    \/ PlayChoose
    \/ PlaySave
    \/ PlayLoad
    \/ Quit

SpecPlay == Init /\ [][NextPlay]_vars

\* ------------------------------------------------------------------------
\* The engine alone: a caller that invokes generate_scene, apply_choice,
\* check_ending and the drift in any order, with any tag
\* ------------------------------------------------------------------------

\* engine operations per behaviour
MaxCalls == 2

\* a tag that has no branch in apply_choice
UnknownTags == { "unlisted_tag" }

AnyTag == EffectTags \cup UnknownTags

\* apply_choice(st, tag) called n times in a row (the test on the chapter
\* makes TLC compute each record before it goes on to the next call)
RECURSIVE Repeat(_, _, _)
Repeat(st, tag, n) ==
    IF n = 0 THEN st
    ELSE LET s1 == apply_choice(st, tag).st
         IN  IF s1.chapter > st.chapter THEN Repeat(s1, tag, n - 1) ELSE s1

\* a run of engine calls: <<"render", v>> is generate_scene with draw v,
\* <<tag, n>> is apply_choice(tag) n times
RECURSIVE RunScript(_, _)
RunScript(st, script) ==
    IF script = <<>> THEN st
    ELSE LET s1 == IF script[1][1] = "render"
                   THEN generate_scene(st, script[1][2]).st
                   ELSE Repeat(st, script[1][1], script[1][2])
         IN  IF s1.chapter >= st.chapter THEN RunScript(s1, Tail(script)) ELSE s1

\* The records the caller starts from: the default-constructed record, the
\* record of a new game, and records the engine takes them to.
Scripts ==
    { <<>>,
      << <<"render", 0>> >>,
      \* trust 0, and trust below 30 with the demon lord met
      << <<"render", 0>>, <<"oath_refuse", 1>> >>,
      << <<"render", 0>>, <<"camp_silence", 9>> >>,
      \* trust 30 and 60 exactly
      << <<"render", 0>>, <<"intro_pact", 1>> >>,
      << <<"render", 0>>, <<"intro_pact", 2>>, <<"intro_fight", 1>> >>,
      \* the alliance ending at its thresholds: trust 80, power 70, oath_bound
      << <<"render", 0>>, <<"oath_sworn", 3>>, <<"intro_fight", 1>>,
         <<"bargain_memory", 3>> >>,
      \* the same with health 0
      << <<"render", 0>>, <<"oath_sworn", 3>>, <<"intro_fight", 1>>,
         <<"bargain_memory", 3>>, <<"hunt_duel", 11>> >>,
      \* health 1 and health 99
      << <<"render", 0>>, <<"intro_fight", 5>>, <<"camp_scout", 1>>, <<"hunt_duel", 1>>,
         <<"intro_fight", 0>> >>,
      << <<"render", 0>>, <<"hunt_duel", 11>>, <<"camp_scout", 7>>, <<"rescue_shield", 1>>,
         <<"camp_scout", 2>> >>,
      << <<"render", 0>>, <<"intro_fight", 1>>, <<"camp_scout", 11>> >>,
      \* the sovereign ending near its thresholds: notoriety 80, power 100
      << <<"render", 0>>, <<"council_raids", 8>>, <<"rescue_walk", 3>> >>,
      << <<"render", 0>>, <<"train_wrath", 5>>, <<"council_raids", 5>> >>,
      \* morality -100 and 100
      << <<"render", 0>>, <<"rescue_walk", 10>> >>,
      << <<"render", 0>>, <<"intro_plead", 10>> >>,
      \* the guardian ending at its thresholds: morality 80, power 50
      << <<"render", 0>>, <<"intro_plead", 8>>, <<"bargain_token", 3>> >>,
      << <<"render", 0>>, <<"intro_plead", 7>>, <<"council_diplomacy", 1>>,
         <<"hunt_race", 6>> >>,
      \* the exile ending near its thresholds: chapter 29 and 30
      << <<"render", 0>>, <<"unlisted_tag", 28>> >>,
      << <<"render", 0>>, <<"unlisted_tag", 29>> >>,
      << <<"render", 0>>, <<"unlisted_tag", 28>>, <<"camp_silence", 14>>,
         <<"hunt_race", 12>> >>,
      \* the guardian and the exile conditions together at chapter 30
      << <<"render", 0>>, <<"rescue_shield", 2>>, <<"rescue_ruse", 10>>,
         <<"unlisted_tag", 17>> >>,
      \* bond 99, power and notoriety 100
      << <<"render", 0>>, <<"oath_sworn", 33>> >>,
      << <<"render", 0>>, <<"bargain_token", 15>> >>,
      \* morality 40 and -40, vow_revenge set, the relic in the inventory
      << <<"render", 0>>, <<"intro_plead", 4>> >>,
      << <<"render", 0>>, <<"intro_vengeance", 4>>, <<"ruins_force", 1>> >> }

\* the scripts run on a default-constructed record, which has no flags
DefaultScripts == { <<>>, << <<"render", 0>> >> }

\* records from_dict builds from documents that lack fields: one with a
\* name for the demon lord and flags set otherwise than intro_scene's
\* defaults, one whose name is the empty string
LegacyRecords ==
    { from_dict([name |-> "Old", seed |-> 5,
                 flags |-> [demon_lord_name |-> "Eresh", allied |-> TRUE, betrayed |-> FALSE]]),
      from_dict([name |-> "Odd", seed |-> 6, flags |-> [demon_lord_name |-> ""]]) }

Origins ==
    { RunScript(new_game("Ann", 42), s) : s \in Scripts }
    \cup { RunScript(DefaultState, s) : s \in DefaultScripts }
    \cup LegacyRecords

InitEngine ==
    /\ origin \in Origins
    /\ state = origin
    /\ rng = NewRng(origin.seed)
    /\ text = NoText
    /\ choices = <<>>
    /\ follow = NoText
    /\ ending = None
    /\ pc = "engine"
    /\ slots = NoFiles
    /\ accessed = <<>>
    /\ twin = NoTwin
    /\ calls = 0
    /\ entry = "new"
    /\ plan = NoPlan
    /\ mem = NoMem

\* one call of an engine method by a caller that holds the record; pc keeps
\* the call that returned last, the tag itself for apply_choice
Call(op) ==
    /\ calls < MaxCalls
    /\ calls' = calls + 1
    /\ pc' = op
    /\ UNCHANGED <<slots, accessed, twin, origin, entry, plan, mem>>

\* engine.generate_scene(state)
Render ==
    /\ Call("render")
    /\ \E v \in SceneDrawsOf(state) :
          LET r == generate_scene(state, v)
          IN  /\ state' = r.st
              /\ text' = r.text
              /\ choices' = r.choices
              /\ rng' = Advance(rng, SceneAsks(state))
    /\ UNCHANGED <<follow, ending>>

\* engine.apply_choice(state, tag)
Apply(tag) ==
    /\ Call(tag)
    /\ state' = apply_choice(state, tag).st
    /\ follow' = apply_choice(state, tag).follow
    /\ UNCHANGED <<rng, text, choices, ending>>

ApplyAny == \E tag \in AnyTag : Apply(tag)

\* engine.check_ending(state)
Evaluate ==
    /\ Call("evaluate")
    /\ ending' = check_ending(state)
    /\ UNCHANGED <<state, rng, text, choices, follow>>

\* if engine._p(0.15): state.health = engine.clamp(state.health + rng.choice(...), 0, 100)
Drift ==
    /\ Call("drift")
    /\ \E r \in RandomValues, v \in 0..(Len(DriftDeltas) - 1) :
          /\ (~p(r, DriftPercent) => v = 0)
          /\ state' = drift(state, r, v)
          /\ rng' = Advance(rng, DriftAsks(r))
    /\ UNCHANGED <<text, choices, follow, ending>>

NextEngine ==
    \/ Render
    \/ ApplyAny
    \/ Evaluate
    \/ Drift

SpecEngine == InitEngine /\ [][NextEngine]_vars

\* ------------------------------------------------------------------------
\* to_dict and from_dict on objects: which lists and dicts a record holds
\* ------------------------------------------------------------------------

\* the fields of StoryState that hold a list or a dict
ContainerFields == {"inventory", "flags", "history"}

\* A heap h is the sequence of the lists and dicts made so far, the address
\* of one being its index. An object r is a record or a dict whose container
\* fields hold addresses; Deref gives the values it holds.
Deref(h, r) == [k \in DOMAIN r |-> IF k \in ContainerFields THEN h[r[k]] ELSE r[k]]

\* An object with the values of st whose three containers are new: what the
\* dataclass constructor does with its default factories, and what a copy
\* of every list and dict of a record does.
NewObject(h, st) ==
    [heap |-> h \o <<st.inventory, st.flags, st.history>>,
     ref  |-> [st EXCEPT !.inventory = Len(h) + 1,
                         !.flags = Len(h) + 2,
                         !.history = Len(h) + 3]]

\* to_dict on the object r: asdict copies every list and dict it meets
ToDictAt(h, r) == NewObject(h, Deref(h, r))

\* from_dict that leaves the three containers of d as they are
FromDictAtShared(h, d) ==
    LET defaults == NewObject(h, DefaultState)
        dd == ToDictAt(defaults.heap, defaults.ref)
        filled == [k \in StateFields |-> IF k \in DOMAIN d THEN d[k] ELSE dd.ref[k]]
    IN  [heap |-> dd.heap, d |-> filled, ref |-> filled]

\* from_dict on the dict d: defaults = StoryState() and defaults.to_dict()
\* make six containers; setdefault puts into d what it lacks; list(), dict()
\* and list() make three more, which are stored into d and which the record
\* StoryState(**d) holds. d is the dict as the call leaves it.
FromDictAt(h, d) ==
    LET defaults == NewObject(h, DefaultState)
        dd == ToDictAt(defaults.heap, defaults.ref)
        filled == [k \in StateFields |-> IF k \in DOMAIN d THEN d[k] ELSE dd.ref[k]]
        typed == NewObject(dd.heap, Deref(dd.heap, filled))
    IN  [heap |-> typed.heap, d |-> typed.ref, ref |-> typed.ref]

\* apply_choice on the object r: flags are set and history lines appended
\* in the containers r holds; ruins_force appends the relic to the list r
\* holds and then binds the field to a new list
ApplyAt(h, r, tag) ==
    LET new == apply_choice(Deref(h, r), tag).st
        h1 == [h EXCEPT ![r.flags] = new.flags,
                        ![r.history] = new.history,
                        ![r.inventory] = IF tag = "ruins_force"
                                         THEN Append(@, "Vault Relic") ELSE @]
    IN  IF tag = "ruins_force"
        THEN [heap |-> Append(h1, new.inventory),
              ref  |-> [new EXCEPT !.inventory = Len(h1) + 1,
                                   !.flags = r.flags,
                                   !.history = r.history]]
        ELSE [heap |-> h1,
              ref  |-> [new EXCEPT !.inventory = r.inventory,
                                   !.flags = r.flags,
                                   !.history = r.history]]

\* generate_scene on the object r: intro_scene sets flags and appends its
\* history line in the containers r holds
RenderAt(h, r, v) ==
    LET new == generate_scene(Deref(h, r), v).st
    IN  [heap |-> [h EXCEPT ![r.flags] = new.flags, ![r.history] = new.history],
         ref  |-> [new EXCEPT !.inventory = r.inventory,
                              !.flags = r.flags,
                              !.history = r.history]]

\* the engine calls made on the record before it is serialized
CopySteps == 1

\* a render or a choice on the record s the caller holds
RecordStep ==
    /\ mem.stage = "none"
    /\ calls < CopySteps
    /\ (Render \/ ApplyAny)

\* d = s.to_dict(): from here on mem holds s as an object, the dict as
\* to_dict returned it (sent) and as it is now (d)
Serialize ==
    /\ mem.stage = "none"
    /\ LET s == NewObject(<<>>, state)
           dd == ToDictAt(s.heap, s.ref)
       IN  mem' = [stage |-> "to_dict", heap |-> dd.heap, s |-> s.ref,
                   sent |-> dd.ref, d |-> dd.ref, copy |-> dd.ref]
    /\ pc' = "to_dict"
    /\ UNCHANGED <<state, rng, text, choices, follow, ending, slots, accessed, twin, calls,
                   origin, entry, plan>>

\* copy = StoryState.from_dict(d)
Deserialize ==
    /\ mem.stage = "to_dict"
    /\ LET r == FromDictAt(mem.heap, mem.d)
       IN  mem' = [mem EXCEPT !.stage = "from_dict", !.heap = r.heap, !.d = r.d,
                              !.copy = r.ref]
    /\ pc' = "from_dict"
    /\ UNCHANGED <<state, rng, text, choices, follow, ending, slots, accessed, twin, calls,
                   origin, entry, plan>>

\* engine.apply_choice(copy, tag) or engine.generate_scene(copy), by the
\* engine and the generator of the run: the call returns its narration, or
\* the scene and its choices after the draw the scene takes
ChangeCopy ==
    /\ mem.stage = "from_dict"
    /\ \/ \E tag \in AnyTag :
             /\ mem' = [mem EXCEPT !.stage = "changed",
                                   !.heap = ApplyAt(mem.heap, mem.copy, tag).heap,
                                   !.copy = ApplyAt(mem.heap, mem.copy, tag).ref]
             /\ follow' = apply_choice(Deref(mem.heap, mem.copy), tag).follow
             /\ pc' = tag
             /\ UNCHANGED <<rng, text, choices>>
       \/ \E v \in SceneDrawsOf(Deref(mem.heap, mem.copy)) :
             /\ mem' = [mem EXCEPT !.stage = "changed",
                                   !.heap = RenderAt(mem.heap, mem.copy, v).heap,
                                   !.copy = RenderAt(mem.heap, mem.copy, v).ref]
             /\ text' = generate_scene(Deref(mem.heap, mem.copy), v).text
             /\ choices' = generate_scene(Deref(mem.heap, mem.copy), v).choices
             /\ rng' = Advance(rng, SceneAsks(Deref(mem.heap, mem.copy)))
             /\ pc' = "render"
             /\ UNCHANGED follow
    /\ UNCHANGED <<state, ending, slots, accessed, twin, calls, origin, entry, plan>>

NextCopy ==
    \/ RecordStep
    \/ Serialize
    \/ Deserialize
    \/ ChangeCopy

SpecCopy == InitEngine /\ [][NextCopy]_vars

\* ------------------------------------------------------------------------
\* A session that finds files in the save directory
\* ------------------------------------------------------------------------

\* a slot file whose "state" has a key that is not a field of StoryState
CorruptDoc == [version |-> 1, state |-> [chapter |-> 2, level |-> 3]]

\* the document another game was saved with, late in its story
OtherSave ==
    SaveData(RunScript(new_game("Bea", 7), << <<"render", 0>>, <<"camp_silence", 9>> >>))

\* a save of a third game in which the seed was replaced by a list
OddSeedSave ==
    SaveData([RunScript(new_game("Cyd", 9), << <<"render", 0>> >>) EXCEPT !.seed = ListSeed])

\* the save directories a session starts with: empty, or holding a file
\* that does not load in slot 1 and a copied save named slot_9.json, or
\* holding the save with the list seed in slot 1
Dirs ==
    { NoFiles,
      (1 :> CorruptDoc) @@ (NUM_SLOTS + 1 :> OtherSave),
      (1 :> OddSeedSave) }

InitFiles ==
    /\ \E g \in NewGames :
          /\ state = new_game(g[1], g[2])
          /\ rng = NewRng(state.seed)
          /\ origin = state
    /\ text = NoText
    /\ choices = <<>>
    /\ follow = NoText
    /\ ending = None
    /\ pc = "loop"
    /\ slots \in Dirs
    /\ accessed = <<>>
    /\ twin = NoTwin
    /\ calls = 0
    /\ entry = "new"
    /\ plan = NoPlan
    /\ mem = NoMem

\* the player of SpecPlay, with every slot input of SlotInputs
NextFiles ==
    \/ PlayTurn
    \/ PlayChoose
    \/ SaveCmd
    \/ LoadCmd
    \/ ListSlots
    \/ Quit

SpecFiles == InitFiles /\ [][NextFiles]_vars

\* ------------------------------------------------------------------------
\* main: the menu, from which game_loop is entered with a new record or a
\* loaded one, and to which the program comes back when game_loop returns
\* ------------------------------------------------------------------------

\* main is at its menu: at the start, after game_loop returned, and after
\* the except branch of 'Load Game' caught what game_loop raised
AtMenu == pc = "menu" \/ pc = "returned" \/ (pc = "raised" /\ entry = "load")

\* game_loop(st) up to the top of its outer loop: a generator seeded with
\* the record's seed, nothing rendered yet
Enter(st, branch) ==
    /\ calls < MaxCalls
    /\ calls' = calls + 1
    /\ state' = st
    /\ rng' = NewRng(st.seed)
    /\ text' = NoText
    /\ choices' = <<>>
    /\ follow' = NoText
    /\ ending' = None
    /\ pc' = "loop"
    /\ origin' = st
    /\ entry' = branch

InitMain ==
    /\ state = DefaultState
    /\ rng = NewRng(DefaultState.seed)
    /\ origin = DefaultState
    /\ text = NoText
    /\ choices = <<>>
    /\ follow = NoText
    /\ ending = None
    /\ pc = "menu"
    /\ slots \in Dirs
    /\ accessed = <<>>
    /\ twin = NoTwin
    /\ calls = 0
    /\ entry = "new"
    /\ plan = NoPlan
    /\ mem = NoMem

\* menu entry 1: new_game(), then game_loop on its record
MenuNew ==
    /\ AtMenu
    /\ \E g \in NewGames : Enter(new_game(g[1], g[2]), "new")
    /\ NoAccess /\ UNCHANGED <<twin, plan, mem>>

\* menu entry 2 with the slot typed: `in` is <<>> when it is not made of
\* digits ('Invalid slot.') or int() rejects it (caught); otherwise
\* saver.load(int(slot)) tests the path of that slot, whatever its number,
\* and game_loop is entered with the record it returns. What load or
\* game_loop's random.Random(state.seed) raises is caught: main's state is
\* assigned only when load returned.
MenuLoad(in) ==
    /\ AtMenu
    /\ IF in = <<>>
       THEN /\ pc' = "menu"
            /\ UNCHANGED <<state, rng, text, choices, follow, ending, origin, entry, accessed,
                           calls>>
       ELSE /\ accessed' = in
            /\ IF load(slots, in[1]).ok /\ Seedable(load(slots, in[1]).state.seed)
               THEN Enter(load(slots, in[1]).state, "load")
               ELSE /\ state' = IF load(slots, in[1]).ok THEN load(slots, in[1]).state
                                ELSE state
                    /\ pc' = "menu"
                    /\ UNCHANGED <<rng, text, choices, follow, ending, origin, entry, calls>>
    /\ UNCHANGED <<slots, twin, plan, mem>>

MenuLoadCmd == \E in \in SlotInputs : MenuLoad(in)

\* menu entry 3: main returns
MenuQuit ==
    /\ AtMenu
    /\ pc' = "exited"
    /\ UNCHANGED <<state, rng, text, choices, follow, ending>> /\ NoAccess /\ Idle

\* any other answer: the menu is shown again
MenuOther ==
    /\ AtMenu
    /\ pc' = "menu"
    /\ UNCHANGED <<state, rng, text, choices, follow, ending>> /\ NoAccess /\ Idle

\* the menu, and in game_loop the player of SpecPlay, who may also type
\* digits that int() rejects
NextMain ==
    \/ MenuNew
    \/ MenuLoadCmd
    \/ MenuQuit
    \/ MenuOther
    \/ PlayTurn
    \/ PlayChoose
    \/ PlaySave
    \/ PlayLoad
    \/ Quit
    \/ BadDigits

SpecMain == InitMain /\ [][NextMain]_vars

\* ------------------------------------------------------------------------
\* Two runs of game_loop on the same record and the same inputs
\* ------------------------------------------------------------------------

\* Two generators give the same stream when they were seeded with the same
\* seed and have been asked the same draws in the same order (equal counts
\* are not enough: the words a draw takes depend on the length asked); a
\* generator that was given no seed (seed -1 here) takes its stream from the
\* operating system.
Coupled(g1, g2) == g1.seed = g2.seed /\ g1.asked = g2.asked /\ g1.seed >= 0

InitTwin ==
    /\ \E g \in NewGames :
          /\ state = new_game(g[1], g[2])
          /\ rng = NewRng(state.seed)
          /\ origin = state
    /\ text = NoText
    /\ choices = <<>>
    /\ follow = NoText
    /\ ending = None
    /\ pc = "loop"
    /\ slots = NoFiles
    /\ accessed = <<>>
    /\ twin = Run
    /\ calls = 0
    /\ entry = "new"
    /\ plan = NoPlan
    /\ mem = NoMem

\* both runs go from the top of the loop to the prompt
TwinTurn ==
    /\ pc = "loop" /\ twin.pc = "loop"
    /\ check_ending(state) = None => state.chapter < MaxChapter
    /\ check_ending(twin.state) = None => twin.state.chapter < MaxChapter
    /\ \E v1 \in SceneDrawsOf(state), v2 \in SceneDrawsOf(twin.state) :
          /\ (Coupled(rng, twin.rng) /\ SceneRequest(state) = SceneRequest(twin.state))
                => v1 = v2
          /\ SetRun(turn(Run, v1))
          /\ twin' = turn(twin, v2)
    /\ UNCHANGED <<slots, accessed, calls, origin, entry, plan, mem>>

\* both runs read the same number at the prompt
TwinChoose ==
    /\ pc = "prompt" /\ twin.pc = "prompt"
    /\ \E idx \in ChoiceInputs, r1 \in RandomValues, r2 \in RandomValues,
          v1 \in DriftDraws, v2 \in DriftDraws :
          /\ ~p(r1, DriftPercent) => v1 = 0
          /\ ~p(r2, DriftPercent) => v2 = 0
          /\ Coupled(rng, twin.rng) => r1 = r2
          /\ (Coupled(rng, twin.rng) /\ r1 = r2) => v1 = v2
          /\ SetRun(select(Run, idx, r1, v1))
          /\ twin' = select(twin, idx, r2, v2)
    /\ UNCHANGED <<slots, accessed, calls, origin, entry, plan, mem>>

\* both runs read quit
TwinQuit ==
    /\ pc = "prompt" /\ twin.pc = "prompt"
    /\ pc' = "returned"
    /\ twin' = [twin EXCEPT !.pc = "returned"]
    /\ UNCHANGED <<state, rng, text, choices, follow, ending, slots, accessed, calls, origin,
                   entry, plan, mem>>

NextTwin ==
    \/ TwinTurn
    \/ TwinChoose
    \/ TwinQuit

SpecTwin == InitTwin /\ [][NextTwin]_vars

\* ------------------------------------------------------------------------
\* Two sessions on one save directory that resume the same save: the first
\* plays on alone and saves, then both load the slot and read the same inputs
\* ------------------------------------------------------------------------

\* both sessions have loaded the save; origin is then the record they resumed
Resumed == origin.chapter >= 1

\* the first session alone: a pass of the loop, a choice, a save
SoloTurn == ~Resumed /\ BeginTurn

SoloChoose == ~Resumed /\ Choose

SoloSave == ~Resumed /\ Save(PlaySlot)

\* both sessions read `load <slot>` at their prompts
ResumeBoth ==
    /\ pc = "prompt" /\ twin.pc = "prompt"
    /\ load(slots, PlaySlot[1]).ok
    /\ state' = load(slots, PlaySlot[1]).state
    /\ rng' = NewRng(load(slots, PlaySlot[1]).state.seed)
    /\ twin' = [twin EXCEPT !.state = load(slots, PlaySlot[1]).state,
                           !.rng = NewRng(load(slots, PlaySlot[1]).state.seed)]
    /\ accessed' = PlaySlot
    /\ origin' = load(slots, PlaySlot[1]).state
    /\ UNCHANGED <<text, choices, follow, ending, pc, slots, calls, entry, plan, mem>>

\* what run r does on its own while the other run o is elsewhere: from the
\* top of its loop it goes to its prompt (or returns on an ending) while o
\* waits for input or has returned; at its prompt it reads the next number
\* or quit when o has returned and reads no more
LoneMoves(r, o) ==
    IF r.pc = "loop" /\ o.pc # "loop"
    THEN IF check_ending(r.state) = None /\ r.state.chapter >= MaxChapter THEN {}
         ELSE { turn(r, v) : v \in SceneDrawsOf(r.state) }
    ELSE IF r.pc = "prompt" /\ o.pc = "returned"
    THEN { select(r, idx, x, IF p(x, DriftPercent) THEN v ELSE 0) :
              idx \in ChoiceInputs, x \in RandomValues, v \in DriftDraws }
         \cup { [r EXCEPT !.pc = "returned"] }
    ELSE {}

\* the two sessions are not at the same point (a number was refused by one
\* and applied by the other, or one has ended): each goes on by itself
LoneStep ==
    /\ \E first \in BOOLEAN :
          IF first
          THEN /\ \E r \in LoneMoves(Run, twin) : SetRun(r)
               /\ twin' = twin
          ELSE /\ \E t \in LoneMoves(twin, Run) : twin' = t
               /\ UNCHANGED <<state, rng, text, choices, follow, ending, pc>>
    /\ UNCHANGED <<slots, accessed, calls, origin, entry, plan, mem>>

NextResume ==
    \/ TwinTurn
    \/ TwinChoose
    \/ TwinQuit
    \/ SoloTurn
    \/ SoloChoose
    \/ SoloSave
    \/ ResumeBoth
    \/ LoneStep

SpecResume == InitTwin /\ [][NextResume]_vars

\* ------------------------------------------------------------------------
\* A playthrough: the player answers every prompt with a listed choice
\* ------------------------------------------------------------------------

\* check_ending compares chapter with this and nothing compares it with more
ChapterCap == 30

\* the players of this specification. One picks the first choice or the
\* fourth at every prompt, as they like, and the drift after a choice may be
\* skipped or taken, down or up. The others keep to one number each, with a
\* drift that is never taken, or always taken down, or always taken up.
\* Every scene draw of a playthrough takes the first candidate (the scene with
\* the demon lord when she was met), or every one the second, or every one
\* the last.
LivePlans ==
    { [picks |-> {1, 4}, draws |-> "first", drifts |-> "free"] }
    \cup { [picks |-> {k}, draws |-> d, drifts |-> f] :
              k \in 1..4, d \in {"first", "second", "last"}, f \in {"never", "down", "up"} }

\* the numbers a player of plan pl types when n choices are listed: those of
\* the plan that are listed, and the last one listed when none of them is
LivePicks(pl, n) ==
    IF \E k \in pl.picks : k <= n THEN { k \in pl.picks : k <= n } ELSE {n}

\* what rng.random() * 100 and the draw of the drift give under plan pl, as
\* pairs <<r, v>>
LiveDrifts(pl) ==
    CASE pl.drifts = "never" -> { <<DriftPercent, 0>> }
      [] pl.drifts = "down"  -> { <<DriftPercent - 1, 0>> }
      [] pl.drifts = "up"    -> { <<DriftPercent - 1, Len(DriftDeltas) - 1>> }
      [] OTHER -> { <<r, v>> \in RandomValues \X DriftDraws : ~p(r, DriftPercent) => v = 0 }

\* the index the draw of generate_scene takes on record st under plan pl
LiveDraws(pl, st) ==
    IF ~SceneDraws(st) \/ pl.draws = "first" THEN {0}
    ELSE IF pl.draws = "second" THEN {Min2(1, SceneRange(st) - 1)}
    ELSE {SceneRange(st) - 1}

\* chapter above ChapterCap is kept as ChapterCap: generate_scene and
\* check_ending cannot tell the two apart. The draws of this specification are
\* free choices, so the number of draws made is not kept either.
Saturate(run) ==
    [run EXCEPT !.state = [@ EXCEPT !.chapter = Min2(@, ChapterCap)],
                !.rng = [@ EXCEPT !.pos = 0, !.asked = <<>>]]

\* main with 'New Game' chosen, and a player with one of the plans
InitLive ==
    /\ \E g \in NewGames :
          /\ state = new_game(g[1], g[2])
          /\ rng = NewRng(state.seed)
          /\ origin = state
    /\ text = NoText
    /\ choices = <<>>
    /\ follow = NoText
    /\ ending = None
    /\ pc = "loop"
    /\ slots = NoFiles
    /\ accessed = <<>>
    /\ twin = NoTwin
    /\ calls = 0
    /\ entry = "new"
    /\ plan \in LivePlans
    /\ mem = NoMem

LiveTurn ==
    /\ pc = "loop"
    /\ \E v \in LiveDraws(plan, state) : SetRun(Saturate(turn(Run, v)))
    /\ NoAccess /\ Idle

LiveChoose ==
    /\ pc = "prompt"
    /\ \E idx \in LivePicks(plan, Len(choices)), d \in LiveDrifts(plan) :
          SetRun(Saturate(select(Run, idx, d[1], d[2])))
    /\ NoAccess /\ Idle

NextLive ==
    \/ LiveTurn
    \/ LiveChoose

\* game_loop always goes on to the next prompt, and the player keeps choosing
SpecLive ==
    /\ InitLive
    /\ [][NextLive]_vars
    /\ WF_vars(LiveTurn)
    /\ WF_vars(LiveChoose)

\* ------------------------------------------------------------------------
\* Properties of the engine
\* ------------------------------------------------------------------------

Range(seq) == { seq[i] : i \in 1..Len(seq) }

Bounded(st) ==
    /\ st.health \in 0..100
    /\ st.power \in 0..100
    /\ st.notoriety \in 0..100
    /\ st.trust_demon_lord \in 0..100
    /\ st.bond_demon_lord \in 0..100
    /\ st.morality \in -100..100

\* generator h is generator g after n more draws
Drew(g, h, n) == h.seed = g.seed /\ h.pos = g.pos + n /\ Len(h.asked) = Len(g.asked) + n

\* C1: from a default-constructed record, after any sequence of render,
\* apply-choice (any tag) and drift steps, health, power, notoriety, trust and
\* bond are in 0..100 and morality is in -100..100.
C1_AttributesBounded == Bounded(state)

\* a call took bond from 99 to the upper bound, where 99 + 3 was cut to 100
C1_Witness ==
    /\ calls > 0
    /\ origin.bond_demon_lord = 99
    /\ state.bond_demon_lord = 100

\* C2: every apply-choice call, for every tag with or without a branch,
\* raises chapter by exactly 1, and no engine operation lowers chapter.
C2_ChapterSteps ==
    [][ /\ (calls' > calls /\ pc' \in AnyTag) => state'.chapter = state.chapter + 1
        /\ state'.chapter >= state.chapter ]_vars

\* an unlisted tag was applied after another call and chapter rose with each
C2_Witness ==
    /\ calls = 2
    /\ pc \in UnknownTags
    /\ follow = Fallback
    /\ state.chapter = origin.chapter + 2

\* the five ending conditions of the specification, in their order
EndingCondition(i, st) ==
    CASE i = 1 -> st.health <= 0
      [] i = 2 -> st.trust_demon_lord >= 80 /\ st.power >= 70 /\ FlagTrue(st, "oath_bound")
      [] i = 3 -> st.notoriety >= 80 /\ st.power >= 80 /\ st.morality <= -30
      [] i = 4 -> st.morality >= 80 /\ st.power >= 50
      [] i = 5 -> st.chapter >= 30 /\ st.trust_demon_lord < 40 /\ st.notoriety < 40

EndingNames == <<"death", "alliance", "sovereign", "guardian", "exile">>

FirstEnding(st) ==
    IF \E i \in 1..5 : EndingCondition(i, st)
    THEN EndingNames[CHOOSE i \in 1..5 :
                        /\ EndingCondition(i, st)
                        /\ \A j \in 1..(i - 1) : ~EndingCondition(j, st)]
    ELSE None

\* C3: evaluate-ending returns the ending of the first satisfied condition in
\* the order death, alliance, sovereign, guardian, exile, and no ending exactly
\* when none of the five holds; health 0 yields death whatever else holds.
C3_EndingPriority ==
    [][ (calls' > calls /\ pc' = "evaluate") =>
          /\ ending' = FirstEnding(state)
          /\ (state.health = 0 => ending' = "death") ]_vars

\* death was returned for a record that also meets the alliance condition
C3_Witness ==
    /\ pc = "evaluate"
    /\ ending = "death"
    /\ state.health = 0
    /\ EndingCondition(2, state)

\* the eligibility table of the specification as a set
Eligible(st) ==
    (IF FlagTrue(st, "met_demon_lord") /\ st.trust_demon_lord >= 60
        /\ ~FlagTrue(st, "oath_bound") THEN {"oath_bond"} ELSE {})
    \cup (IF FlagTrue(st, "met_demon_lord") /\ st.trust_demon_lord >= 30
          THEN {"council", "training"} ELSE {})
    \cup (IF FlagTrue(st, "met_demon_lord") /\ st.trust_demon_lord < 30
          THEN {"tense_camp"} ELSE {})
    \cup (IF FlagTrue(st, "vow_revenge") THEN {"spy_report", "ambush_king_scouts"} ELSE {})
    \cup (IF st.morality >= 40 THEN {"rescue_travelers"} ELSE {})
    \cup (IF st.morality <= -40 THEN {"grim_bargain"} ELSE {})
    \cup {"mystic_ruins", "wild_hunt", "whispering_trees"}

\* the candidate list of generate_scene on st is the table's set, each once
EligibleIsListed(st) ==
    st.chapter >= 1 =>
        /\ Range(Archetypes(st)) = Eligible(st)
        /\ Len(Archetypes(st)) = Cardinality(Eligible(st))
        /\ (st.trust_demon_lord = 10 /\ FlagTrue(st, "met_demon_lord") =>
              /\ "tense_camp" \in Range(Archetypes(st))
              /\ "council" \notin Range(Archetypes(st))
              /\ "training" \notin Range(Archetypes(st)))

\* C4: with chapter >= 1 the archetypes render draws from are exactly those of
\* the eligibility table, each once; with trust 10 and the demon lord met they
\* include tense_camp and neither council nor training.
C4_EligibleArchetypes ==
    [][ /\ calls = 0 => EligibleIsListed(state)
        /\ EligibleIsListed(state')
        /\ (calls' > calls /\ pc' = "render" /\ state.chapter >= 1) =>
              \E a \in Eligible(state) : text'[1] = Dispatch(a) ]_vars

\* the camp scene was rendered for a record with trust 10
C4_Witness ==
    /\ pc = "render"
    /\ text[1] = "scene_tense_camp"
    /\ state.location = SceneLocation("scene_tense_camp")
    /\ state.trust_demon_lord = 10
    /\ FlagTrue(state, "met_demon_lord")

\* the archetypes that have a branch of their own in the dispatch chain
Dispatched ==
    { "oath_bond", "council", "training", "tense_camp", "spy_report",
      "ambush_king_scouts", "rescue_travelers", "grim_bargain", "mystic_ruins",
      "wild_hunt", "whispering_trees" }

\* generate_scene is total on st: a candidate exists, every candidate has a
\* branch of the dispatch chain, and every draw yields 3 or 4 choices
RenderDefined(st) ==
    /\ Len(Archetypes(st)) >= 1
    /\ Range(Archetypes(st)) \subseteq Dispatched
    /\ \A a \in Range(Archetypes(st)) : Dispatch(a) \in SceneProcs
    /\ st.chapter = 0 => Len(IntroChoices(DlName(st))) \in {3, 4}
    /\ \A a \in Range(Archetypes(st)) :
          Len(SceneChoices(Dispatch(a), DlName(st))) \in {3, 4}

\* C5: for every record render returns 3 or 4 (text, tag) pairs; the candidate
\* list is never empty and every candidate has a scene procedure.
C5_RenderTotal ==
    [][ /\ calls = 0 => RenderDefined(state)
        /\ RenderDefined(state')
        /\ (calls' > calls /\ pc' = "render") =>
              /\ Len(choices') \in {3, 4}
              /\ \A i \in 1..Len(choices') : Len(choices'[i]) = 2
              /\ text'[1] \in SceneProcs \cup {"intro"} ]_vars

\* a scene was rendered for a record without any flag, where only the three
\* exploration archetypes are candidates
C5_Witness ==
    /\ pc = "render"
    /\ state.flags = NoFlags
    /\ state.chapter >= 1
    /\ text[1] \in {"scene_ruins", "scene_wild_hunt", "scene_whispers"}
    /\ Len(choices) = 3

\* the scenario of C6: a new record at chapter 0, rendered, then intro_pact
C6_Scenario ==
    /\ origin.chapter = 0
    /\ calls = 2
    /\ text[1] = "intro"
    /\ pc = "intro_pact"

\* C6 as claimed: after render and intro_pact on a new record, trust is 30,
\* allied is true and chapter is 1.
C6_Original ==
    C6_Scenario =>
        /\ Len(choices) = 4
        /\ state.trust_demon_lord = 30
        /\ FlagTrue(state, "allied")
        /\ state.chapter = 1

\* C6 amended: after render and intro_pact on a new record, trust is 30,
\* allied is true and chapter is 2 (1 set by the render, 1 added by the choice).
C6_IntroPact ==
    C6_Scenario =>
        /\ Len(choices) = 4
        /\ state.trust_demon_lord = 30
        /\ FlagTrue(state, "allied")
        /\ state.chapter = 2

C6_Witness == C6_Scenario /\ state.chapter = 2

\* the tags the most recent render for record st returned: every render sets
\* st.location, and nothing else does
LastRenderTags(st) ==
    IF st.location = IntroLocation THEN { c[2] : c \in Range(IntroChoices("-")) }
    ELSE UNION { { c[2] : c \in Range(SceneChoices(q, "-")) } :
                 q \in { q \in SceneProcs : SceneLocation(q) = st.location } }

\* the record after a choice that had no effect: chapter + 1, and the health
\* the drift may have moved
NoEffect(st, st2) ==
    st2 = [st EXCEPT !.chapter = @ + 1, !.health = st2.health]

\* C7: a choice whose tag the most recent render for the record did not return
\* is treated as unknown: fallback narration, nothing changed but chapter.
C7_StaleTagIsNoop ==
    [][ (pc = "prompt" /\ pc' = "loop" /\ follow'[1] \notin LastRenderTags(state)) =>
          (follow' = Fallback /\ NoEffect(state, state')) ]_vars

\* C8: a tag without a branch yields the fallback narration and changes no
\* field of the record but chapter.
C8_UnknownTagFrame ==
    [][ (calls' > calls /\ pc' \in UnknownTags) =>
          /\ follow' = Fallback
          /\ state' = [state EXCEPT !.chapter = @ + 1]
          /\ \A k \in StateFields \ {"chapter"} : state'[k] = state[k] ]_vars

\* an unlisted tag was applied to a record with flags, history and the relic
C8_Witness ==
    /\ calls = 1
    /\ pc \in UnknownTags
    /\ follow = Fallback
    /\ state.chapter = origin.chapter + 1
    /\ Len(state.inventory) = 3
    /\ FlagTrue(state, "vow_revenge")

\* C9: two runs that start from equal records with the same seed and read the
\* same choice numbers show, turn by turn, the same scene, narration and
\* choices, take the same drift, and hold equal records at the end.
C9_SameSeedSameStory == twin = Run

\* both runs are past their second choice, each with two drifts taken
C9_Witness ==
    /\ twin = Run
    /\ pc = "loop"
    /\ state.chapter = 3
    /\ rng.pos = 6
    /\ state.health # origin.health

\* C10 as claimed: every playthrough in which the player keeps choosing
\* reaches a record for which check_ending returns an ending.
C10_Original == <>(check_ending(state) # None)

\* C10 amended: every playthrough in which the player keeps choosing reaches
\* an ending, or chapter 30 with trust or notoriety at 40 or more.
C10_EndsUnlessKnown ==
    <>(\/ check_ending(state) # None
       \/ /\ state.chapter >= ChapterCap
          /\ (state.trust_demon_lord >= 40 \/ state.notoriety >= 40))

\* the player who always picks the third choice, with every drift skipped,
\* is at a prompt at chapter 30: no ending was found before the scene was
\* rendered, with trust at 40 or more
C10_Witness ==
    /\ pc = "prompt"
    /\ plan.picks = {3}
    /\ plan.drifts = "never"
    /\ ending = None
    /\ state.chapter = ChapterCap
    /\ check_ending(state) = None
    /\ state.trust_demon_lord >= 40

\* C11: in game_loop the ending is evaluated before every render; when it
\* matches, the loop returns at once, leaving record, generator, scene and
\* narration as they are, and nothing happens after it has returned. With
\* slots that start empty and are written by the save command only, the
\* record at every prompt (where apply_choice is invoked), a record
\* installed by load included, is one for which check_ending finds nothing.
C11_EndingIsTerminal ==
    [][ /\ pc = "prompt" => check_ending(state) = None
        /\ pc' = "prompt" => check_ending(state') = None
        /\ (pc = "loop" /\ check_ending(state) # None) =>
              /\ pc' = "returned"
              /\ ending' = check_ending(state)
              /\ UNCHANGED <<state, rng, text, choices, follow>>
        /\ (pc = "loop" /\ pc' = "prompt") =>
              (check_ending(state) = None /\ ending' = None)
        /\ pc # "returned" ]_vars

\* the loop has returned with an ending, found one choice after a load
C11_Witness ==
    /\ pc = "returned"
    /\ ending # None
    /\ accessed = PlaySlot
    /\ 1 \in DOMAIN slots
    /\ rng.pos <= 2
    /\ state.chapter = slots[1].state.chapter + 1

\* C12: a save or a load whose slot number is outside 1..NUM_SLOTS is
\* rejected before any file is touched: no file of a slot outside
\* 1..NUM_SLOTS is ever tested, read or written.
C12_SlotInRange ==
    /\ \A i \in 1..Len(accessed) : accessed[i] \in 1..NUM_SLOTS
    /\ \A n \in DOMAIN slots : n \notin 1..NUM_SLOTS => slots[n] = OtherSave

\* the load command with slot `in` prints 'Load failed': SaveManager.load
\* raised, or rng.seed raised on the seed of the record it returned
LoadFails(in) ==
    /\ in # <<>>
    /\ ~load(slots, in[1]).ok \/ ~Seedable(load(slots, in[1]).state.seed)

\* C13: a load command that fails leaves the record and the generator as
\* they were, and the session stays at the same prompt with the same scene
\* and choices.
C13_FailedLoadKeepsSession ==
    [][ \A in \in SlotInputs :
          (Load(in) /\ LoadFails(in)) =>
              UNCHANGED <<state, rng, text, choices, follow, pc, slots>> ]_vars

\* C14: a successful load installs the saved record and reseeds the
\* generator from its seed, so that the stream restarts at its first draw;
\* two resumptions of the same save that read the same choice selections
\* therefore go through the same records and draws.
C14_ResumptionsAgree ==
    Resumed => /\ state = twin.state
               /\ rng = twin.rng
               /\ rng.seed = state.seed

Distinct(seq) == \A i, j \in 1..Len(seq) : i # j => seq[i] # seq[j]

\* the index of the first occurrence of x in seq
FirstAt(seq, x) ==
    CHOOSE i \in 1..Len(seq) : seq[i] = x /\ \A j \in 1..(i - 1) : seq[j] # x

\* every entry of old is in new, and the first occurrences stand in new in
\* the order they have in old
KeepsOrder(old, new) ==
    /\ Range(old) \subseteq Range(new)
    /\ \A i, j \in 1..Len(old) :
          FirstAt(old, old[i]) < FirstAt(old, old[j]) =>
              FirstAt(new, old[i]) < FirstAt(new, old[j])

\* C15: whatever tags apply_choice is called with, ruins_force repeated
\* included, the inventory holds no entry twice, and an apply_choice call
\* keeps the entries it found, in their order.
C15_InventoryDistinct ==
    [][ /\ calls = 0 => Distinct(state.inventory)
        /\ Distinct(state'.inventory)
        /\ (calls' > calls /\ pc' \in AnyTag) =>
              KeepsOrder(state.inventory, state'.inventory) ]_vars

\* ruins_force was applied twice in a row: the relic is there once, last
C15_Witness ==
    /\ pc = "ruins_force"
    /\ calls = 2
    /\ origin.inventory = DefaultState.inventory
    /\ state.chapter = origin.chapter + 2
    /\ state.power = origin.power + 16
    /\ state.inventory = <<"Torn Cloak", "Rusty Sword", "Vault Relic">>

\* C16: for every record s reached by generate_scene and apply_choice, the
\* record from_dict makes of s.to_dict() equals s in every field, and to_dict
\* of it equals what to_dict gave for s; its inventory, flags and history are
\* containers that neither s nor the dict handed to from_dict held, and
\* after a choice or a render on it s holds the values it held.
C16_RoundTripFresh ==
    /\ mem.stage # "none" => Deref(mem.heap, mem.s) = state
    /\ mem.stage = "from_dict" =>
          /\ \A k \in StateFields : Deref(mem.heap, mem.copy)[k] = state[k]
          /\ DOMAIN Deref(mem.heap, mem.copy) = DOMAIN state
          /\ Deref(ToDictAt(mem.heap, mem.copy).heap, ToDictAt(mem.heap, mem.copy).ref)
                = Deref(mem.heap, mem.sent)
    /\ mem.stage \in {"from_dict", "changed"} =>
          \A k \in ContainerFields, j \in ContainerFields :
             /\ mem.copy[k] # mem.s[j]
             /\ mem.copy[k] # mem.sent[j]

\* a record with a name flag and a history line came back from the round
\* trip, and ruins_force on the copy put the relic into the copy's inventory:
\* the inventory of s is as it was
C16_Witness ==
    /\ mem.stage = "changed"
    /\ pc = "ruins_force"
    /\ calls = 1
    /\ state.flags["demon_lord_name"] = "Nyx"
    /\ Len(state.history) >= 1
    /\ state.inventory = <<"Torn Cloak", "Rusty Sword">>
    /\ Deref(mem.heap, mem.s).inventory = state.inventory
    /\ Deref(mem.heap, mem.copy).inventory = <<"Torn Cloak", "Rusty Sword", "Vault Relic">>
    /\ Deref(mem.heap, mem.copy).chapter = state.chapter + 1

\* what a tag adds to bond_demon_lord
BondGain(tag) ==
    CASE tag = "train_sync" -> 1
      [] tag = "oath_sworn" -> 3
      [] tag = "whisper_together" -> 1
      [] OTHER -> 0

\* C17: bond_demon_lord never decreases; apply_choice raises it by 1 for
\* train_sync, 3 for oath_sworn and 1 for whisper_together, up to 100 and
\* no further, and leaves it alone for every other tag; generate_scene,
\* check_ending and the drift leave it alone.
C17_BondOnlyGrows ==
    [][ /\ state'.bond_demon_lord >= state.bond_demon_lord
        /\ (calls' > calls /\ pc' \in AnyTag) =>
              state'.bond_demon_lord = Min2(100, state.bond_demon_lord + BondGain(pc'))
        /\ (calls' > calls /\ pc' \notin AnyTag) =>
              state'.bond_demon_lord = state.bond_demon_lord ]_vars

\* from bond 99, train_sync took it to 100 and oath_sworn left it there
C17_Witness ==
    /\ calls = 2
    /\ pc = "oath_sworn"
    /\ origin.bond_demon_lord = 99
    /\ state.bond_demon_lord = 100
    /\ state.chapter = origin.chapter + 2
    /\ state.power = origin.power + 6

\* C18: under generate_scene and apply_choice, and the other engine
\* operations, a flag key that is present stays present.
C18_FlagKeysOnlyGrow ==
    [][ DOMAIN state.flags \subseteq DOMAIN state'.flags ]_vars

\* oath_sworn has added the key oath_bound to the flags intro_scene had set
C18_Witness ==
    /\ calls = 2
    /\ pc = "oath_sworn"
    /\ origin.chapter = 0
    /\ ~HasKey(origin.flags, "oath_bound")
    /\ ~HasKey(origin.flags, "vow_revenge")
    /\ HasKey(state.flags, "oath_bound")
    /\ HasKey(state.flags, "vow_revenge")
    /\ DOMAIN origin.flags \subseteq DOMAIN state.flags

\* the flag holds a name: a string that is not empty
HoldsName(st) == HasKey(st.flags, "demon_lord_name") /\ st.flags["demon_lord_name"] # ""

\* C19: the introductory render of a record without a name takes one draw
\* and sets demon_lord_name to one of the 8 names of demon_names; once the
\* flag holds a name, no engine operation changes it, and an introductory
\* render of a record that holds a name takes no draw.
C19_NameFrozen ==
    [][ /\ HoldsName(state) =>
              (HoldsName(state') /\
               state'.flags["demon_lord_name"] = state.flags["demon_lord_name"])
        /\ (calls' > calls /\ pc' = "render" /\ state.chapter = 0 /\ ~HoldsName(state)) =>
              /\ HoldsName(state')
              /\ state'.flags["demon_lord_name"] \in Range(demon_names)
              /\ Len(demon_names) = 8
              /\ Drew(rng, rng', 1)
        /\ (calls' > calls /\ pc' = "render" /\ state.chapter = 0 /\ HoldsName(state)) =>
              /\ rng' = rng
              /\ text' = <<"intro", state.flags["demon_lord_name"]>> ]_vars

\* the introductory scene was rendered for a record that held the name
\* Eresh, and a choice was applied after it
C19_Witness ==
    /\ calls = 2
    /\ pc \in AnyTag
    /\ origin.chapter = 0
    /\ HoldsName(origin)
    /\ text = <<"intro", "Eresh">>
    /\ rng.pos = 0
    /\ state.flags["demon_lord_name"] = "Eresh"

IntroFlagDefaults ==
    [betrayed |-> TRUE, met_demon_lord |-> TRUE, allied |-> FALSE,
     vow_revenge |-> FALSE, seeking_truth |-> TRUE]

\* C20: generate_scene on a record with chapter 0 returns the introductory
\* scene with its 4 choices, sets chapter to 1 and the location to the intro
\* location, appends one line to the history, gives each of the five flags
\* its default only where the key is absent, and leaves the six bounded
\* attributes, the inventory, the name and the seed alone.
C20_IntroRender ==
    [][ (calls' > calls /\ pc' = "render" /\ state.chapter = 0) =>
          /\ text'[1] = "intro"
          /\ choices' = IntroChoices(text'[2])
          /\ state'.chapter = 1
          /\ state'.location = IntroLocation
          /\ state'.history = Append(state.history, IntroHistory)
          /\ \A k \in DOMAIN IntroFlagDefaults :
                state'.flags[k] = IF HasKey(state.flags, k) THEN state.flags[k]
                                  ELSE IntroFlagDefaults[k]
          /\ DOMAIN state'.flags =
                DOMAIN state.flags \cup DOMAIN IntroFlagDefaults \cup {"demon_lord_name"}
          /\ \A k \in {"health", "power", "morality", "notoriety", "trust_demon_lord",
                        "bond_demon_lord", "inventory", "name", "seed"} :
                state'[k] = state[k] ]_vars

\* the introductory scene was rendered for a record whose flags allied and
\* betrayed were set against the defaults: they are kept, the absent
\* vow_revenge got its default
C20_Witness ==
    /\ calls = 1
    /\ pc = "render"
    /\ origin.chapter = 0
    /\ HasKey(origin.flags, "allied")
    /\ origin.flags["allied"] = TRUE
    /\ ~HasKey(origin.flags, "vow_revenge")
    /\ state.flags["allied"] = TRUE
    /\ state.flags["betrayed"] = FALSE
    /\ state.flags["vow_revenge"] = FALSE
    /\ state.chapter = 1
    /\ Len(state.history) = 1

\* C21: generate_scene on a record with chapter >= 1 assigns the location
\* of the scene it returns and changes no other field of the record, and it
\* takes exactly one draw from the generator.
C21_RenderFrame ==
    [][ (calls' > calls /\ pc' = "render" /\ state.chapter >= 1) =>
          /\ state' = [state EXCEPT !.location = SceneLocation(text'[1])]
          /\ \A k \in StateFields \ {"location"} : state'[k] = state[k]
          /\ text'[1] \in SceneProcs
          /\ Drew(rng, rng', 1) ]_vars

\* two scenes were rendered in a row for a record past the intro: two
\* draws, a new location, and the rest of the record as it began
C21_Witness ==
    /\ calls = 2
    /\ pc = "render"
    /\ origin.chapter >= 1
    /\ rng.pos = 2
    /\ state.location # origin.location
    /\ state.location = "Moonwell -- Mirror of Vows"
    /\ [state EXCEPT !.location = origin.location] = origin

\* the record after the drift fired on st with the delta of index v
Drifted(st, v) == [st EXCEPT !.health = clamp(@ + DriftDeltas[v], 0, 100)]

\* C22: apply_choice and check_ending take no draw, and what they return
\* is given by the record and the tag, resp. the record. In a session the
\* generator advances only in a render (one draw; none for an intro whose
\* name is set) and after a numbered choice (one draw for the drift's test
\* and one more when it fires); a load reseeds it.
C22_DrawsAccounted ==
    [][ /\ (pc = "loop" /\ pc' = "prompt") =>
              /\ check_ending(state) = None
              /\ Drew(rng, rng', IF state.chapter = 0 /\ HoldsName(state) THEN 0 ELSE 1)
        /\ (pc = "loop" /\ pc' = "returned") =>
              (ending' = check_ending(state) /\ rng' = rng /\ state' = state)
        /\ (pc = "prompt" /\ pc' = "loop") =>
              \E i \in 1..Len(choices) :
                 LET a == apply_choice(state, choices[i][2])
                 IN  /\ follow' = a.follow
                     /\ \/ Drew(rng, rng', 1) /\ state' = a.st
                        \/ /\ Drew(rng, rng', 2)
                           /\ \E v \in 1..Len(DriftDeltas) : state' = Drifted(a.st, v)
        /\ (pc = "prompt" /\ pc' # "loop") =>
              (rng' = rng \/ (rng' = NewRng(state'.seed) /\ accessed' # <<>>)) ]_vars

\* after two renders and two choices five draws were taken: the drift
\* fired once
C22_Witness ==
    /\ pc = "loop"
    /\ state.chapter = 3
    /\ rng.pos = 5
    /\ slots = NoFiles
    /\ accessed = <<>>
    /\ state.health < 80

\* the bounded attributes with their intervals
AttrLo == [health |-> 0, power |-> 0, morality |-> -100, notoriety |-> 0,
           trust_demon_lord |-> 0, bond_demon_lord |-> 0]

AttrHi == [health |-> 100, power |-> 100, morality |-> 100, notoriety |-> 100,
           trust_demon_lord |-> 100, bond_demon_lord |-> 100]

Attrs == DOMAIN AttrLo

\* st with every bounded attribute in the middle of its interval, where no
\* delta of a tag reaches a bound
MidRange(st) ==
    [st EXCEPT !.health = 50, !.power = 50, !.morality = 0, !.notoriety = 50,
               !.trust_demon_lord = 50, !.bond_demon_lord = 50]

\* what tag adds to attribute k where nothing saturates
Delta(st, tag, k) == apply_choice(MidRange(st), tag).st[k] - MidRange(st)[k]

\* C23: where a delta of the tag would take an attribute out of its
\* interval, apply_choice returns normally and the attribute is the nearest
\* bound, max(lo, min(hi, old + delta)); the other deltas of the tag and
\* its effects on flags, history and inventory are those it has where
\* nothing saturates.
C23_Saturates ==
    [][ (calls' > calls /\ pc' \in AnyTag) =>
          /\ \A k \in Attrs :
                state'[k] = Max2(AttrLo[k], Min2(AttrHi[k], state[k] + Delta(state, pc', k)))
          /\ \A k \in StateFields \ Attrs :
                state'[k] = apply_choice(MidRange(state), pc').st[k]
          /\ follow' = apply_choice(MidRange(state), pc').follow ]_vars

\* a tag was applied of which one delta met a bound and another was
\* applied in full
C23_Witness ==
    /\ calls = 1
    /\ pc \in EffectTags
    /\ \E k, j \in Attrs :
          /\ k # j
          /\ origin[k] + Delta(origin, pc, k) \notin AttrLo[k]..AttrHi[k]
          /\ state[k] \in {AttrLo[k], AttrHi[k]}
          /\ Delta(origin, pc, j) # 0
          /\ state[j] = origin[j] + Delta(origin, pc, j)
    /\ DOMAIN state.flags # DOMAIN origin.flags

\* what a turn of the session consists of: record, generator, scene,
\* choices, narration, ending and the position in the loop
TurnVars == <<state, rng, text, choices, follow, ending, pc>>

\* C24: at the prompt the commands help, stats, slots and save, text that
\* is no command and no number, and a number that is not the number of a
\* listed choice leave the record and the generator as they are and do not
\* advance the turn; the turn advances (a choice is applied, the drift
\* drawn, and then a scene rendered) only on the number of a listed choice.
C24_CommandsKeepTurn ==
    [][ /\ (Help \/ Stats \/ ListSlots \/ SaveCmd \/ OtherInput) => UNCHANGED TurnVars
        /\ BadDigits => UNCHANGED <<state, rng, text, choices, follow, ending>>
        /\ \A idx \in ChoiceInputs, r \in RandomValues, v \in DriftDraws :
              (pc = "prompt" /\ ~(1 <= idx /\ idx <= Len(choices))
                 /\ SetRun(select(Run, idx, r, v))) => UNCHANGED TurnVars
        /\ (pc = "prompt" /\ pc' = "loop") =>
              \E i \in 1..Len(choices) :
                 /\ follow' = apply_choice(state, choices[i][2]).follow
                 /\ state'.chapter = state.chapter + 1
        /\ pc = "prompt" => (text' = text /\ choices' = choices)
        /\ (pc = "prompt" /\ pc' = "prompt" /\ <<state, rng>>' # <<state, rng>>) =>
              /\ accessed' # <<>>
              /\ load(slots, accessed'[1]).ok
              /\ state' = load(slots, accessed'[1]).state ]_vars

\* at the first prompt the session was saved and the slots were listed:
\* the record is the one saved, one draw was taken, the intro is shown
C24_Witness ==
    /\ pc = "prompt"
    /\ accessed = <<NUM_SLOTS>>
    /\ 1 \in DOMAIN slots
    /\ slots[1] = SaveData(state)
    /\ text[1] = "intro"
    /\ Drew(NewRng(state.seed), rng, 1)
    /\ follow = NoText

\* the tags of a list of (choice text, tag) pairs
TagsOf(chs) == { chs[i][2] : i \in 1..Len(chs) }

\* the tags the scene procedures and the intro can return
SceneTags ==
    TagsOf(IntroChoices("-")) \cup UNION { TagsOf(SceneChoices(proc, "-")) : proc \in SceneProcs }

\* C25: every tag that the intro or one of the 11 scene procedures returns
\* has a branch of its own in apply_choice: applying a choice of the scene
\* just rendered returns that tag's narration, never the fallback.
C25_SceneTagsKnown ==
    [][ (calls' > calls /\ pc' = "render") =>
          /\ SceneTags \subseteq EffectTags
          /\ TagsOf(choices') \subseteq SceneTags
          /\ \A tag \in TagsOf(choices') :
                /\ apply_choice(state', tag).follow # Fallback
                /\ apply_choice(state', tag).follow[1] = tag ]_vars

\* the altar scene was rendered and its third choice applied: the token's
\* own narration came back
C25_Witness ==
    /\ calls = 2
    /\ pc = "bargain_token"
    /\ text[1] = "scene_grim_bargain"
    /\ pc \in TagsOf(choices)
    /\ follow = <<"bargain_token", "-">>
    /\ state.chapter = origin.chapter + 1

\* the archetypes generate_scene would choose among
Candidates(st) == { Archetypes(st)[i] : i \in 1..Len(Archetypes(st)) }

\* C26: no engine operation resets oath_bound once it is true: oath_sworn
\* sets it, and from then on oath_bond is not among the candidates and the
\* oath scene is not rendered for that record.
C26_OathOnce ==
    [][ /\ (calls' > calls /\ pc' = "oath_sworn") => FlagTrue(state', "oath_bound")
        /\ FlagTrue(state, "oath_bound") =>
              /\ FlagTrue(state', "oath_bound")
              /\ "oath_bond" \notin Candidates(state)
              /\ "oath_bond" \notin Candidates(state')
              /\ (calls' > calls /\ pc' = "render") => text'[1] # "scene_oath_bond" ]_vars

\* the oath was sworn on a record that had not sworn it; with the demon
\* lord met and trust at 60 or more the next render is the council
C26_Witness ==
    /\ ~FlagTrue(origin, "oath_bound")
    /\ FlagTrue(state, "oath_bound")
    /\ FlagTrue(state, "met_demon_lord")
    /\ state.trust_demon_lord >= 60
    /\ calls >= 2
    /\ pc = "render"
    /\ text[1] = "scene_council"

\* C27: in a session started with new_game the intro is rendered on the
\* first turn and on no later one: every render leaves chapter >= 1, no step
\* of the session takes chapter back to 0, every document the save command
\* writes holds chapter >= 1, and so does the record a load of it installs.
C27_IntroOnce ==
    [][ /\ (pc = "loop" /\ pc' = "prompt") =>
              /\ state'.chapter >= 1
              /\ (text'[1] = "intro") <=> (state.chapter = 0)
              /\ state.chapter = 0 => (entry = "new" /\ text = NoText /\ state = origin)
        /\ (pc \in {"loop", "prompt"} /\ state.chapter >= 1) => state'.chapter >= 1
        /\ \A n \in DOMAIN slots' :
              (n \notin DOMAIN slots \/ slots'[n] # slots[n]) =>
                 /\ pc = "prompt"
                 /\ slots'[n] = SaveData(state)
                 /\ slots'[n].state.chapter >= 1
        /\ (pc = "prompt" /\ pc' = "prompt" /\ state' # state) =>
              /\ state' = from_dict(StateOf(slots[accessed'[1]]))
              /\ state'.chapter >= 1 ]_vars

\* in a session started with new_game, a save made after the intro was
\* loaded while a later scene was on screen: the record is back at chapter
\* 1 and the intro is not shown
C27_Witness ==
    /\ pc = "prompt"
    /\ entry = "new"
    /\ origin.chapter = 0
    /\ accessed = <<1>>
    /\ HasKey(slots, 1)
    /\ slots[1] = SaveData(state)
    /\ state.name = "Ann"
    /\ state.chapter = 1
    /\ rng = NewRng(state.seed)
    /\ text # NoText
    /\ text[1] # "intro"

====
